---- MODULE Spec2Model ----
(***************************************************************************)
(* A model of jcbhmr/deno-kv: the SQLite-backed atomic write engine that   *)
(* the package documents and mirrors (atomic_write), and the TypeScript    *)
(* classes layered over the same database (Kv, AtomicOperation,            *)
(* kvAtomicWrite).                                                         *)
(***************************************************************************)
EXTENDS Integers, Sequences, FiniteSets, TLC

(***************************************************************************)
(* Bounds of the model.                                                    *)
(***************************************************************************)
\* the data_version counter is capped: no write starts once it is reached
MaxVersion == 2
\* longest list of checks of one AtomicWrite
MaxChecks == 2
\* longest list of mutations of one AtomicWrite
MaxMutations == 2
\* longest list of mutations of a write of the two racing callers
MaxRaceMutations == 2
\* most rows under the listed prefix
MaxRows == 5
\* largest batchSize of a list iterator
MaxBatchSize == 3
\* largest limit of a list iterator
MaxLimit == 3
\* most next() calls made on an iterator after it has returned done
MaxCallsAfterDone == 2
\* the most next() calls made on the iterator whose calls may overlap
MaxCalls == 3
\* the data_version from which no further stepwise transaction begins
MaxTxVersion == 2
\* the longest list of mutations of a stepwise transaction
MaxTxMutations == 2
\* the most parts of an encoded key
MaxKeyParts == 2
\* the most arguments of one check() or mutate() call
MaxBuilderArgs == 2
\* calls of withGlobal in one run
MaxGlobalCalls == 2
\* rows under the listed prefix when a listing beside writers starts
MaxLiveRows == 3
\* atomic writes that commit while one listing runs
MaxLiveWrites == 2
\* atomic writes of other connections that commit while one getMany runs
MaxGetManyWrites == 2

(***************************************************************************)
(* Values.                                                                 *)
(***************************************************************************)
\* Option<T>, T | null, a row that may be missing: a sequence of length 0 or 1
None == <<>>
Some(x) == <<x>>

Keys == {"a", "b"}

\* a u64 is kept as its 8 little-endian bytes (the LE64 storage encoding)
U64Zero == <<0, 0, 0, 0, 0, 0, 0, 0>>
U64One == <<1, 0, 0, 0, 0, 0, 0, 0>>
U64Max == <<255, 255, 255, 255, 255, 255, 255, 255>>

\* node:v8 serialize("x"): header 0xFF 0x0F, one-byte string tag, length, 'x'
V8X == <<255, 15, 34, 1, 120>>

\* enum Value { V8(Vec<u8>), Bytes(Vec<u8>), U64(u64) }
Value ==
  [kind : {"V8", "Bytes"}, value : {V8X}] \cup [kind : {"U64"}, value : {U64One, U64Max}]

\* enum MutationKind { Set(Value), Delete, Sum(Value), Min(Value), Max(Value) }
SetKind == [tag : {"Set"}, value : {[kind |-> "V8", value |-> V8X]}]
MutationKind ==
  SetKind
    \cup [tag : {"Delete"}]
    \cup [tag : {"Sum"}, value : {[kind |-> "U64", value |-> U64One],
                                  [kind |-> "U64", value |-> U64Max]}]
    \cup [tag : {"Min", "Max"}, value : {[kind |-> "U64", value |-> U64One]}]

\* struct KvMutation { key, kind }: every kind on key "a", sets on key "b"
KvMutation == [key : {"a"}, kind : MutationKind] \cup [key : {"b"}, kind : SetKind]

\* struct KvCheck { key, versionstamp: Option<Versionstamp> }, in a fixed order
KvCheck(versionstamp) ==
  <<[key |-> "a", versionstamp |-> None], [key |-> "a", versionstamp |-> Some(versionstamp)],
    [key |-> "b", versionstamp |-> None], [key |-> "b", versionstamp |-> Some(versionstamp)]>>

\* the sequence of the elements of list whose index is in indices, in list order
RECURSIVE Pick(_, _, _)
Pick(list, indices, i) ==
  IF i > Len(list) THEN <<>>
  ELSE (IF i \in indices THEN <<list[i]>> ELSE <<>>) \o Pick(list, indices, i + 1)

\* the sublists of list of length at most n: the order of the checks of a write
\* is not observable and a repeated check adds nothing
SubListsUpTo(list, n) ==
  {Pick(list, indices, 1) : indices \in {I \in SUBSET (1..Len(list)) : Cardinality(I) <= n}}

\* all sequences over S of length at most n
RECURSIVE SeqsUpTo(_, _)
SeqsUpTo(S, n) ==
  IF n = 0 THEN {<<>>}
  ELSE LET shorter == SeqsUpTo(S, n - 1)
       IN  shorter \cup {Append(s, x) : s \in {t \in shorter : Len(t) = n - 1}, x \in S}

(***************************************************************************)
(* u64 arithmetic on little-endian bytes.                                  *)
(***************************************************************************)
\* carry into byte i of a + b
RECURSIVE Carry(_, _, _)
Carry(a, b, i) == IF i = 1 THEN 0 ELSE (a[i - 1] + b[i - 1] + Carry(a, b, i - 1)) \div 256

\* u64::wrapping_add
wrapping_add_Saturating(a, b) ==
  IF Carry(a, b, 8) + a[8] + b[8] > 255 THEN [i \in 1..8 |-> 255]
  ELSE [i \in 1..8 |-> (a[i] + b[i] + Carry(a, b, i)) % 256]
wrapping_add(a, b) == [i \in 1..8 |-> (a[i] + b[i] + Carry(a, b, i)) % 256]

\* a < b as unsigned integers: the most significant differing byte decides
U64Less(a, b) ==
  \E i \in 1..8 : a[i] < b[i] /\ \A j \in (i + 1)..8 : a[j] = b[j]

\* u64::min, u64::max
u64_min(a, b) == IF U64Less(b, a) THEN b ELSE a
u64_max(a, b) == IF U64Less(a, b) THEN b ELSE a

(***************************************************************************)
(* Versionstamps.                                                          *)
(***************************************************************************)
\* type Versionstamp = [u8; 10]: the i64 version big-endian in the first eight
\* bytes, two zero bytes after it (versions of the model stay below 2^31)
Pow256(n) == IF n = 0 THEN 1 ELSE IF n = 1 THEN 256 ELSE IF n = 2 THEN 65536 ELSE 16777216
version_to_versionstamp(version) ==
  [i \in 1..10 |-> IF i \in 5..8 THEN (version \div Pow256(8 - i)) % 256 ELSE 0]

\* the order of [u8; 10] (and of its fixed-width hex string): lexicographic
VersionstampLess(x, y) ==
  \E i \in 1..10 : x[i] < y[i] /\ \A j \in 1..(i - 1) : x[j] = y[j]

(***************************************************************************)
(* The SQL statements, on the table kv (k -> row or None) and the single   *)
(* row of data_version.                                                    *)
(***************************************************************************)
\* "update data_version set version = version + 1 where k = 0 returning version"
STATEMENT_INC_AND_GET_DATA_VERSION_NoIncrement(version) == version
STATEMENT_INC_AND_GET_DATA_VERSION(version) == version + 1

\* "select version from kv where k = ?", .optional()
STATEMENT_KV_POINT_GET_VERSION_ONLY(table, k) ==
  IF table[k] = None THEN None ELSE Some(table[k][1].version)

\* "select v, v_encoding from kv where k = ?", .optional()
STATEMENT_KV_POINT_GET_VALUE_ONLY(table, k) ==
  IF table[k] = None THEN None
  ELSE Some([v |-> table[k][1].v, v_encoding |-> table[k][1].v_encoding])

\* "insert into kv (k, v, v_encoding, version) values (...) on conflict(k) do update ..."
STATEMENT_KV_POINT_SET_InsertOrIgnore(table, k, v, v_encoding, version) ==
  IF table[k] # None THEN table
  ELSE [table EXCEPT ![k] = Some([v |-> v, v_encoding |-> v_encoding, version |-> version])]
STATEMENT_KV_POINT_SET_KeepsVersion(table, k, v, v_encoding, version) ==
  [table EXCEPT ![k] = Some([v |-> v, v_encoding |-> v_encoding,
                             version |-> IF table[k] = None THEN version ELSE table[k][1].version])]
STATEMENT_KV_POINT_SET(table, k, v, v_encoding, version) ==
  [table EXCEPT ![k] = Some([v |-> v, v_encoding |-> v_encoding, version |-> version])]

\* "delete from kv where k = ?"
STATEMENT_KV_POINT_DELETE(table, k) == [table EXCEPT ![k] = None]

\* encode_value: the stored bytes and the encoding tag of a Value
encode_value(value) ==
  [v |-> value.value,
   v_encoding |-> IF value.kind = "V8" THEN "V8" ELSE IF value.kind = "U64" THEN "LE64" ELSE "BYTES"]

(***************************************************************************)
(* atomic_write: one SQLite transaction.  The function holds the           *)
(* connection's RefCell for its whole body and awaits nothing, so it runs  *)
(* without interleaving; a transaction dropped before tx.commit() is       *)
(* rolled back.                                                            *)
(***************************************************************************)
\* lines 30-34: the stored version of the checked key, as a versionstamp
real_versionstamp(table, check) ==
  LET version == STATEMENT_KV_POINT_GET_VERSION_ONLY(table, check.key)
  IN  IF version = None THEN None ELSE Some(version_to_versionstamp(version[1]))

\* line 35: the check fails when the two differ
CheckFails_IgnoresAbsentKey(table, check) ==
  /\ real_versionstamp(table, check) # None
  /\ real_versionstamp(table, check) # check.versionstamp
CheckFails(table, check) == real_versionstamp(table, check) # check.versionstamp

\* lines 29-38: the loop returns Ok(None) at the first failing check
AnyCheckFails_LastOnly(table, checks) ==
  Len(checks) > 0 /\ CheckFails(table, checks[Len(checks)])
AnyCheckFails(table, checks) == \E i \in 1..Len(checks) : CheckFails(table, checks[i])

\* the closure each arm passes to mutate_le64 with its op_name (lines 60-72)
mutate(op_name, a, b) ==
  IF op_name = "sum" THEN wrapping_add(a, b)
  ELSE IF op_name = "min" THEN u64_min(a, b)
  ELSE u64_max(a, b)

\* mutate_le64(tx, key, op_name, operand, version, mutate): Ok(table) or Err.
\* The operand and any existing value must be U64; an absent key takes the
\* operand as its new value.
mutate_le64_AbsentCountsAsZero(table, key, op_name, operand, version) ==
  LET old == STATEMENT_KV_POINT_GET_VALUE_ONLY(table, key)
  IN  IF operand.kind # "U64" THEN [ok |-> FALSE]
      ELSE IF old = None
        THEN [ok |-> TRUE,
              table |-> STATEMENT_KV_POINT_SET(
                          table, key, mutate(op_name, <<0, 0, 0, 0, 0, 0, 0, 0>>, operand.value),
                          "LE64", version)]
      ELSE IF old[1].v_encoding # "LE64" THEN [ok |-> FALSE]
      ELSE [ok |-> TRUE,
            table |-> STATEMENT_KV_POINT_SET(
                        table, key, mutate(op_name, old[1].v, operand.value), "LE64", version)]
mutate_le64_AbsentIsNoOp(table, key, op_name, operand, version) ==
  LET old == STATEMENT_KV_POINT_GET_VALUE_ONLY(table, key)
  IN  IF operand.kind # "U64" THEN [ok |-> FALSE]
      ELSE IF old = None THEN [ok |-> TRUE, table |-> table]
      ELSE IF old[1].v_encoding # "LE64" THEN [ok |-> FALSE]
      ELSE [ok |-> TRUE,
            table |-> STATEMENT_KV_POINT_SET(
                        table, key, mutate(op_name, old[1].v, operand.value), "LE64", version)]
mutate_le64(table, key, op_name, operand, version) ==
  LET old == STATEMENT_KV_POINT_GET_VALUE_ONLY(table, key)
  IN  IF operand.kind # "U64" THEN [ok |-> FALSE]
      ELSE IF old = None
        THEN [ok |-> TRUE,
              table |-> STATEMENT_KV_POINT_SET(table, key, operand.value, "LE64", version)]
      ELSE IF old[1].v_encoding # "LE64" THEN [ok |-> FALSE]
      ELSE [ok |-> TRUE,
            table |-> STATEMENT_KV_POINT_SET(
                        table, key, mutate(op_name, old[1].v, operand.value), "LE64", version)]

\* lines 45-74: one arm of the match on mutation.kind
ApplyMutation(table, mutation, version) ==
  IF mutation.kind.tag = "Set" THEN
    LET e == encode_value(mutation.kind.value)
    IN  [ok |-> TRUE,
         table |-> STATEMENT_KV_POINT_SET(table, mutation.key, e.v, e.v_encoding, version)]
  ELSE IF mutation.kind.tag = "Delete" THEN
    [ok |-> TRUE, table |-> STATEMENT_KV_POINT_DELETE(table, mutation.key)]
  ELSE IF mutation.kind.tag = "Sum" THEN
    mutate_le64(table, mutation.key, "sum", mutation.kind.value, version)
  ELSE IF mutation.kind.tag = "Min" THEN
    mutate_le64(table, mutation.key, "min", mutation.kind.value, version)
  ELSE
    mutate_le64(table, mutation.key, "max", mutation.kind.value, version)

\* lines 44-75: the mutations from index i on, in order; `?` leaves at the first Err
RECURSIVE ApplyMutations_Reversed(_, _, _, _)
ApplyMutations_Reversed(table, mutations, i, version) ==
  IF i > Len(mutations) THEN [ok |-> TRUE, table |-> table]
  ELSE LET r == ApplyMutation(table, mutations[Len(mutations) + 1 - i], version)
       IN  IF r.ok THEN ApplyMutations_Reversed(r.table, mutations, i + 1, version) ELSE r
RECURSIVE ApplyMutations(_, _, _, _)
ApplyMutations(table, mutations, i, version) ==
  IF i > Len(mutations) THEN [ok |-> TRUE, table |-> table]
  ELSE LET r == ApplyMutation(table, mutations[i], version)
       IN  IF r.ok THEN ApplyMutations(r.table, mutations, i + 1, version) ELSE r

\* lines 21-86.  db = [kv, data_version]; commit_fails: tx.commit() returns Err.
\* The result: "None" is Ok(None), "Some" is Ok(Some(CommitResult)), "Err" is Err.
atomic_write_CheckFailureIsError(db, write, commit_fails) ==
  IF AnyCheckFails(db.kv, write.checks) THEN [result |-> "Err", db |-> db]
  ELSE
    LET version == STATEMENT_INC_AND_GET_DATA_VERSION(db.data_version)
        applied == ApplyMutations(db.kv, write.mutations, 1, version)
    IN  IF ~applied.ok \/ commit_fails THEN [result |-> "Err", db |-> db]
        ELSE [result |-> "Some",
              versionstamp |-> version_to_versionstamp(version),
              db |-> [kv |-> applied.table, data_version |-> version]]
atomic_write_IncrementPerMutation(db, write, commit_fails) ==
  IF AnyCheckFails(db.kv, write.checks) THEN [result |-> "None", db |-> db]
  ELSE
    LET version == db.data_version + Len(write.mutations)
        applied == ApplyMutations(db.kv, write.mutations, 1, version)
    IN  IF ~applied.ok \/ commit_fails THEN [result |-> "Err", db |-> db]
        ELSE [result |-> "Some",
              versionstamp |-> version_to_versionstamp(version),
              db |-> [kv |-> applied.table, data_version |-> version]]
atomic_write_ErrKeepsCounter(db, write, commit_fails) ==
  IF AnyCheckFails(db.kv, write.checks) THEN [result |-> "None", db |-> db]
  ELSE
    LET version == STATEMENT_INC_AND_GET_DATA_VERSION(db.data_version)
        applied == ApplyMutations(db.kv, write.mutations, 1, version)
    IN  IF ~applied.ok \/ commit_fails
        THEN [result |-> "Err", db |-> [kv |-> db.kv, data_version |-> version]]
        ELSE [result |-> "Some",
              versionstamp |-> version_to_versionstamp(version),
              db |-> [kv |-> applied.table, data_version |-> version]]
atomic_write_ChecksAfterMutations(db, write, commit_fails) ==
  LET version == STATEMENT_INC_AND_GET_DATA_VERSION(db.data_version)
      applied == ApplyMutations(db.kv, write.mutations, 1, version)
  IN  IF ~applied.ok \/ commit_fails THEN [result |-> "Err", db |-> db]
      ELSE IF AnyCheckFails(applied.table, write.checks) THEN [result |-> "None", db |-> db]
      ELSE [result |-> "Some",
            versionstamp |-> version_to_versionstamp(version),
            db |-> [kv |-> applied.table, data_version |-> version]]
atomic_write(db, write, commit_fails) ==
  IF AnyCheckFails(db.kv, write.checks) THEN [result |-> "None", db |-> db]
  ELSE
    LET version == STATEMENT_INC_AND_GET_DATA_VERSION(db.data_version)
        applied == ApplyMutations(db.kv, write.mutations, 1, version)
    IN  IF ~applied.ok \/ commit_fails THEN [result |-> "Err", db |-> db]
        ELSE [result |-> "Some",
              versionstamp |-> version_to_versionstamp(version),
              db |-> [kv |-> applied.table, data_version |-> version]]

(***************************************************************************)
(* The TypeScript layer: Kv, AtomicOperation, kvAtomicWrite.  Its SQL      *)
(* names the columns key, value and versionstamp; the model reads them as  *)
(* the k, v and version columns of the one kv table.                       *)
(***************************************************************************)
\* a class field declared without an initializer holds undefined
Undefined == [defined |-> FALSE]
Defined(items) == [defined |-> TRUE, items |-> items]

\* AtomicOperation's constructor: it assigns #db and nothing else
AtomicOperation_InitialisesItsLists(db) == [checks |-> Defined(<<>>), mutations |-> Defined(<<>>)]
AtomicOperation(db) == [checks |-> Undefined, mutations |-> Undefined]

\* kvAtomicWrite(db, checks, mutations): Promise<string | null>
kvAtomicWrite(db, checks, mutations) == None

\* AtomicOperation.commit(), lines 89-93: what it resolves to for the
\* versionstamp (or null) that the write returned
KvCommitResult(versionstamp) ==
  IF versionstamp # None THEN [ok |-> TRUE, versionstamp |-> versionstamp[1]]
  ELSE [ok |-> FALSE]

\* AtomicOperation.commit(): {ok: true, versionstamp} or {ok: false}
AtomicOperation_commit(db, operation) ==
  KvCommitResult(kvAtomicWrite(db, operation.checks, operation.mutations))

\* serializeValue of a string (the default arm): {kind: "v8", value: serialize(value)}
serializeValue(value) == [kind |-> "V8", value |-> <<255, 15, 34, Len(value)>> \o value]

\* AtomicOperation.set(key, value): this.#mutations.push([key, "set", raw]); a
\* push on undefined throws a TypeError
AtomicOperation_set(operation, key, value) ==
  IF ~operation.mutations.defined THEN [thrown |-> "TypeError"]
  ELSE [thrown |-> "",
        operation |-> [operation EXCEPT !.mutations =
          Defined(Append(operation.mutations.items, <<key, "set", serializeValue(value)>>))]]

\* serializeValue of a value given with the name of its constructor: the
\* "KvU64" arm (lines 40-41) or the default arm
serializeValue_unknown(value) ==
  IF value.constructor = "KvU64" THEN [kind |-> "U64", value |-> value.value]
  ELSE serializeValue(value.value)

\* new KvU64(1n), and the string "x"
KvU64_One == [constructor |-> "KvU64", value |-> U64One]
String_x == [constructor |-> "String", value |-> <<120>>]

\* the null of a mutation tuple without a value
Null == [kind |-> "null"]

\* this.#checks.push(...checks): a TypeError on undefined
AtomicOperation_check(operation, checks) ==
  IF ~operation.checks.defined THEN [thrown |-> "TypeError", operation |-> operation]
  ELSE [thrown |-> "",
        operation |-> [operation EXCEPT !.checks = Defined(operation.checks.items \o checks)]]

\* this.#mutations.push([key, type, value]): a TypeError on undefined
PushMutation(operation, key, type, value) ==
  IF ~operation.mutations.defined THEN [thrown |-> "TypeError", operation |-> operation]
  ELSE [thrown |-> "",
        operation |-> [operation EXCEPT !.mutations =
          Defined(Append(operation.mutations.items, <<key, type, value>>))]]

\* AtomicOperation.delete(key), max(key, n), min(key, n), sum(key, n)
AtomicOperation_delete(operation, key) == PushMutation(operation, key, "delete", Null)
AtomicOperation_max(operation, key, n) ==
  PushMutation(operation, key, "max", serializeValue_unknown([constructor |-> "KvU64", value |-> n]))
AtomicOperation_min(operation, key, n) ==
  PushMutation(operation, key, "min", serializeValue_unknown([constructor |-> "KvU64", value |-> n]))
AtomicOperation_sum(operation, key, n) ==
  PushMutation(operation, key, "sum", serializeValue_unknown([constructor |-> "KvU64", value |-> n]))

\* a KvMutation object as the caller passes it: value is None when the object
\* has no value property
MutationObject ==
  [key : {"a"}, type : {"delete", "set", "sum", "rename"},
   value : {None, Some(String_x), Some(KvU64_One)}]

\* mutate(), lines 142-161: the TypeError the switch throws for one mutation, or ""
InvalidMutation(mutation) ==
  IF mutation.type = "delete" THEN (IF mutation.value # None THEN "TypeError" ELSE "")
  ELSE IF mutation.type \in {"set", "sum", "min", "max"}
    THEN (IF mutation.value = None THEN "TypeError" ELSE "")
  ELSE "TypeError"

\* AtomicOperation.mutate(...mutations), lines 138-165: the loop from index i
\* on; each mutation is checked and pushed before the next one is looked at
RECURSIVE MutateFrom(_, _, _)
MutateFrom(operation, mutations, i) ==
  IF i > Len(mutations) THEN [thrown |-> "", operation |-> operation]
  ELSE IF InvalidMutation(mutations[i]) # ""
    THEN [thrown |-> InvalidMutation(mutations[i]), operation |-> operation]
  ELSE LET pushed ==
             PushMutation(operation, mutations[i].key, mutations[i].type,
                          IF mutations[i].type = "delete" THEN Null
                          ELSE serializeValue_unknown(mutations[i].value[1]))
       IN  IF pushed.thrown # "" THEN pushed
           ELSE MutateFrom(pushed.operation, mutations, i + 1)
AtomicOperation_mutate(operation, mutations) == MutateFrom(operation, mutations, 1)

\* Kv.delete(key): this.#db.run("DELETE FROM kv WHERE key = ?", key); the
\* statement goes straight to the table, outside atomic_write, and the counter
\* of data_version is not touched
Kv_delete(db, key) ==
  [settled |-> "fulfilled", db |-> [db EXCEPT !.kv = STATEMENT_KV_POINT_DELETE(db.kv, key)]]

\* Kv.set(key, value): this.atomic().set(key, value).commit(), then {key, versionstamp}
Kv_set(db, key, value) ==
  LET built == AtomicOperation_set(AtomicOperation(db), key, value)
  IN  IF built.thrown # "" THEN [settled |-> "rejected", error |-> built.thrown]
      ELSE [settled |-> "fulfilled",
            value |-> [key |-> key, versionstamp |-> AtomicOperation_commit(db, built.operation)]]

\* JSON.parse of stored bytes read as text: a run of decimal digits is a number,
\* any text holding a byte outside the JSON alphabet is a SyntaxError
RECURSIVE Decimal(_, _)
Decimal(text, n) == IF n = 0 THEN 0 ELSE Decimal(text, n - 1) * 10 + (text[n] - 48)
JSON_parse(text) ==
  IF Len(text) > 0 /\ \A i \in 1..Len(text) : text[i] \in 48..57
  THEN [thrown |-> "", value |-> Decimal(text, Len(text))]
  ELSE [thrown |-> "SyntaxError"]

\* db.get("SELECT value, versionstamp FROM kv WHERE key = ?", key): the row or undefined
db_get(table, key) ==
  IF table[key] = None THEN Undefined ELSE Defined(table[key][1])

\* Kv.get(key): destructures the row (a TypeError on undefined), then
\* {key, value: value ? JSON.parse(value) : null, versionstamp}
Kv_get(db, key) ==
  LET row == db_get(db.kv, key)
  IN  IF ~row.defined THEN [settled |-> "rejected", error |-> "TypeError"]
      ELSE LET parsed == JSON_parse(row.items.v)
           IN  IF parsed.thrown # "" THEN [settled |-> "rejected", error |-> parsed.thrown]
               ELSE [settled |-> "fulfilled",
                     value |-> [key |-> key, value |-> Some(parsed.value),
                                versionstamp |-> Some(row.items.version)]]

\* Promise.all(promises): rejected with the error of a rejected promise,
\* otherwise fulfilled with the values in the order of the promises
Promise_all(results) ==
  IF \E i \in 1..Len(results) : results[i].settled = "rejected"
  THEN [settled |-> "rejected",
        error |-> results[CHOOSE i \in 1..Len(results) :
                            /\ results[i].settled = "rejected"
                            /\ \A j \in 1..(i - 1) : results[j].settled # "rejected"].error]
  ELSE [settled |-> "fulfilled", value |-> [i \in 1..Len(results) |-> results[i].value]]

\* Kv.getMany(keys): Promise.all(keys.map(key => this.get(key))); results holds
\* what the get() of each key settled to, each from its own SELECT
Kv_getMany(keys, results) == Promise_all(results)

(***************************************************************************)
(* KvListIterator.  A key is a sequence of number parts; an entry is        *)
(* reduced to its key.  The scan behind pullBatch and the cursor encoding   *)
(* (encodeCursor) live in 01_db and are not part of the class.              *)
(***************************************************************************)
\* the keys of the listed table: one key before the prefix <<1>>, n keys under
\* it, one key after it
ListTable(n) == {<<0, 1>>, <<2, 1>>} \cup {<<1, i>> : i \in 1..n}

\* the order of keys: part by part, a proper prefix before its extensions
KeyLess(x, y) ==
  \/ Len(x) < Len(y) /\ \A i \in 1..Len(x) : x[i] = y[i]
  \/ \E i \in 1..Len(x) :
       /\ i <= Len(y)
       /\ x[i] < y[i]
       /\ \A j \in 1..(i - 1) : x[j] = y[j]

\* key starts with prefix and is longer than it
HasPrefix(key, prefix) ==
  Len(prefix) < Len(key) /\ \A i \in 1..Len(prefix) : key[i] = prefix[i]

\* KvListSelector: {prefix}, {prefix, start}, {prefix, end}, {start, end}, and
\* the shapes the constructor rejects (a missing field is None)
KvListSelector ==
  [prefix : {None, Some(<<1>>)}, start : {None, Some(<<1, 2>>)}, end : {None, Some(<<1, 4>>)}]

\* the keys a selector matches: those under the prefix, from start (included)
\* to end (excluded)
Selected(table, selector) ==
  {key \in table :
     /\ selector.prefix # None => HasPrefix(key, selector.prefix[1])
     /\ selector.start # None => ~KeyLess(key, selector.start[1])
     /\ selector.end # None => KeyLess(key, selector.end[1])}

\* the cursor of a finished iterator is the empty string
EmptyCursor == [empty |-> TRUE]

\* encodeCursor([prefix, start, end], boundary_key): the resume point after boundary_key
encodeCursor(selector, boundary_key) ==
  [empty |-> FALSE, selector |-> selector, boundary_key |-> boundary_key]

\* the keys of S in ascending order (descending when reverse is set)
RECURSIVE Ordered(_, _)
Ordered(S, reverse) ==
  IF S = {} THEN <<>>
  ELSE LET first == CHOOSE x \in S :
                      \A y \in S \ {x} : IF reverse THEN KeyLess(y, x) ELSE KeyLess(x, y)
       IN  <<first>> \o Ordered(S \ {first}, reverse)

\* the first n elements of a sequence
Take(list, n) == SubSeq(list, 1, IF n < Len(list) THEN n ELSE Len(list))

\* pullBatch(selector, cursor, reverse, consistency) of an iterator of the
\* given batchSize: one scan of at most batchSize rows of the selector's range,
\* in scan order, past the cursor's boundary key when there is a cursor
pullBatch(table, batchSize, selector, cursor, reverse) ==
  LET range == Selected(table, selector)
      rest == IF cursor = None THEN range
              ELSE {key \in range :
                      IF reverse THEN KeyLess(key, cursor[1].boundary_key)
                      ELSE KeyLess(cursor[1].boundary_key, key)}
  IN  Take(Ordered(rest, reverse), batchSize)

\* Array.prototype.reverse
RECURSIVE Reverse(_)
Reverse(list) == IF list = <<>> THEN <<>> ELSE Reverse(Tail(list)) \o <<Head(list)>>

\* new KvListIterator({limit, selector, cursor, reverse, consistency, batchSize,
\* pullBatch}): the iterator, or the TypeError of lines 85 and 100.  limit and
\* cursor are None when not given; an empty cursor is falsy (line 111).
KvListIterator_AcceptsPrefixWithStartAndEnd(limit, selector, cursor, reverse, batchSize) ==
  IF selector.prefix = None /\ (selector.start = None \/ selector.end = None)
    THEN [thrown |-> "TypeError"]
  ELSE [thrown |-> "",
        selector |-> IF selector.prefix # None /\ selector.start # None
                       THEN [selector EXCEPT !.end = None]
                     ELSE selector,
        entries |-> None,
        cursorGen |-> IF cursor # None /\ ~cursor[1].empty THEN cursor ELSE None,
        done |-> FALSE,
        lastBatch |-> FALSE,
        limit |-> limit,
        count |-> 0,
        reverse |-> reverse,
        batchSize |-> batchSize]
KvListIterator_IgnoresCursor(limit, selector, cursor, reverse, batchSize) ==
  IF selector.prefix # None /\ selector.start # None /\ selector.end # None
    THEN [thrown |-> "TypeError"]
  ELSE IF selector.prefix = None /\ (selector.start = None \/ selector.end = None)
    THEN [thrown |-> "TypeError"]
  ELSE [thrown |-> "",
        selector |-> selector,
        entries |-> None,
        cursorGen |-> None,
        done |-> FALSE,
        lastBatch |-> FALSE,
        limit |-> limit,
        count |-> 0,
        reverse |-> reverse,
        batchSize |-> batchSize]
KvListIterator(limit, selector, cursor, reverse, batchSize) ==
  IF selector.prefix # None /\ selector.start # None /\ selector.end # None
    THEN [thrown |-> "TypeError"]
  ELSE IF selector.prefix = None /\ (selector.start = None \/ selector.end = None)
    THEN [thrown |-> "TypeError"]
  ELSE [thrown |-> "",
        selector |-> selector,
        entries |-> None,
        cursorGen |-> IF cursor # None /\ ~cursor[1].empty THEN cursor ELSE None,
        done |-> FALSE,
        lastBatch |-> FALSE,
        limit |-> limit,
        count |-> 0,
        reverse |-> reverse,
        batchSize |-> batchSize]

\* get cursor(): the cursor, or the Error of line 116
KvListIterator_cursor_EmptyBeforeFirstIteration(it) ==
  IF it.cursorGen = None THEN [thrown |-> "", value |-> EmptyCursor]
  ELSE [thrown |-> "", value |-> it.cursorGen[1]]
KvListIterator_cursor(it) ==
  IF it.cursorGen = None THEN [thrown |-> "Error"]
  ELSE [thrown |-> "", value |-> it.cursorGen[1]]

\* next(), lines 124-127: fused, or the limit is reached
Fused_IgnoresLimit(it) == it.done
Fused(it) == it.done \/ (it.limit # None /\ it.count >= it.limit[1])

\* next(), line 132: the buffer is null or empty and the last batch was not short
NeedsBatch_IgnoresLastBatch(it) == it.entries = None \/ it.entries[1] = <<>>
NeedsBatch(it) == (it.entries = None \/ it.entries[1] = <<>>) /\ ~it.lastBatch

\* next(), lines 133-147: pull a batch, keep it reversed, note a short batch
Fill_WithoutCursor(it, table) ==
  LET batch == pullBatch(table, it.batchSize, it.selector, None, it.reverse)
  IN  [it EXCEPT !.entries = Some(Reverse(batch)),
                 !.lastBatch = Len(batch) < it.batchSize]
Fill_FullBatchIsLast(it, table) ==
  LET batch == pullBatch(table, it.batchSize, it.selector, it.cursorGen, it.reverse)
  IN  [it EXCEPT !.entries = Some(Reverse(batch)),
                 !.lastBatch = Len(batch) <= it.batchSize]
Fill(it, table) ==
  LET batch == pullBatch(table, it.batchSize, it.selector, it.cursorGen, it.reverse)
  IN  [it EXCEPT !.entries = Some(Reverse(batch)),
                 !.lastBatch = Len(batch) < it.batchSize]

\* next(), lines 140-147, for a call that resumes from its await with the batch
\* its scan returned: keep it reversed and set (never clear) #lastBatch
StoreBatch(it, batch) ==
  [it EXCEPT !.entries = Some(Reverse(batch)),
             !.lastBatch = it.lastBatch \/ Len(batch) < it.batchSize]

\* next(), lines 150-172: pop the entry at the end of the buffer; without one
\* the iterator is done and its cursor is ""; with one the cursor is that of
\* the entry's key and the entry is counted
Pop_CursorOfBatchEnd(it, scanned) ==
  IF it.entries = None \/ it.entries[1] = <<>>
    THEN [it |-> [it EXCEPT !.done = TRUE, !.cursorGen = Some(EmptyCursor)],
          done |-> TRUE, scanned |-> scanned]
  ELSE LET buffer == it.entries[1]
           entry == buffer[Len(buffer)]
       IN  [it |-> [it EXCEPT !.entries = Some(SubSeq(buffer, 1, Len(buffer) - 1)),
                              !.cursorGen = Some(encodeCursor(it.selector, buffer[1])),
                              !.count = it.count + 1],
            done |-> FALSE, value |-> entry, scanned |-> scanned]
Pop(it, scanned) ==
  IF it.entries = None \/ it.entries[1] = <<>>
    THEN [it |-> [it EXCEPT !.done = TRUE, !.cursorGen = Some(EmptyCursor)],
          done |-> TRUE, scanned |-> scanned]
  ELSE LET buffer == it.entries[1]
           entry == buffer[Len(buffer)]
       IN  [it |-> [it EXCEPT !.entries = Some(SubSeq(buffer, 1, Len(buffer) - 1)),
                              !.cursorGen = Some(encodeCursor(it.selector, entry)),
                              !.count = it.count + 1],
            done |-> FALSE, value |-> entry, scanned |-> scanned]

\* KvListIterator.next(): the iterator after the call, the result, and the
\* number of scans the call issued
KvListIterator_next_Unfused(it, table) ==
  IF it.limit # None /\ it.count >= it.limit[1]
    THEN [it |-> it, done |-> TRUE, scanned |-> 0]
  ELSE IF it.entries = None \/ it.entries[1] = <<>>
    THEN Pop([Fill(it, table) EXCEPT !.lastBatch = FALSE], 1)
  ELSE Pop(it, 0)
KvListIterator_next(it, table) ==
  IF Fused(it) THEN [it |-> it, done |-> TRUE, scanned |-> 0]
  ELSE IF NeedsBatch(it) THEN Pop(Fill(it, table), 1)
  ELSE Pop(it, 0)

(***************************************************************************)
(* State.                                                                  *)
(***************************************************************************)
VARIABLES
  kv,            \* table kv: key -> Some(row [v, v_encoding, version]) or None
  data_version,  \* table data_version: the version of its single row
  last,          \* the operation the caller awaits: its input, its result, the database before it
  committed,     \* the versionstamps returned by the commits so far, in commit order
  inflight,      \* writer -> Some(the AtomicWrite it has submitted) or None
  outcome,       \* writer -> Some(the result of its write, the database before and after) or None
  listing        \* one listing: its table, its iterator, what it has yielded, its latest scan
                 \* and its short batch, the iterator resumed from its cursor

vars == <<kv, data_version, last, committed, inflight, outcome, listing>>

database == [kv |-> kv, data_version |-> data_version]


\* struct AtomicWrite { checks, mutations, enqueues }; enqueues are not written (line 77).
\* A check expects None or the versionstamp of the first commit.
AtomicWrite ==
  [checks : SubListsUpTo(KvCheck(version_to_versionstamp(1)), MaxChecks),
   mutations : SeqsUpTo(KvMutation, MaxMutations)]

\* const MAX_CHECKS, const MAX_MUTATIONS
MAX_CHECKS == 10
MAX_MUTATIONS == 10

\* n copies of x
Repeat(x, n) == [i \in 1..n |-> x]

\* writes at and one past the limits: checks that "b" is absent, sets of "a"
LongWrite ==
  LET check == [key |-> "b", versionstamp |-> None]
      set == [key |-> "a", kind |-> [tag |-> "Set", value |-> [kind |-> "V8", value |-> V8X]]]
  IN  [checks : {Repeat(check, n) : n \in {0, MAX_CHECKS, MAX_CHECKS + 1}},
       mutations : {Repeat(set, n) : n \in {1, MAX_MUTATIONS, MAX_MUTATIONS + 1}}]

\* two callers of the database, each with one atomic write
Writers == {1, 2}

\* the writes of the two racing callers: one check (of "a" or "b"), at least one
\* mutation of "a"
RaceMutation ==
  [key : {"a"}, kind : SetKind \cup [tag : {"Delete"}]
                         \cup [tag : {"Sum"}, value : {[kind |-> "U64", value |-> U64One]}]]
RaceWrite ==
  [checks : SubListsUpTo(KvCheck(version_to_versionstamp(1)), 1) \ {<<>>},
   mutations : SeqsUpTo(RaceMutation, MaxRaceMutations) \ {<<>>}]

\* MIGRATIONS: data_version holds (0, 0), kv is empty
Init ==
  /\ kv = [k \in Keys |-> None]
  /\ data_version = 0
  /\ last = [op |-> "idle"]
  /\ committed = <<>>
  /\ inflight = [w \in Writers |-> None]
  /\ outcome = [w \in Writers |-> None]
  /\ listing = [phase |-> "none"]

\* Database.atomic_write(write)
AtomicWriteStep ==
  /\ last.op = "idle"
  /\ data_version < MaxVersion
  /\ \E write \in AtomicWrite :
     \E commit_fails \in IF AnyCheckFails(kv, write.checks) THEN {FALSE} ELSE BOOLEAN :
       LET r == atomic_write(database, write, commit_fails)
       IN  /\ kv' = r.db.kv
           /\ data_version' = r.db.data_version
           /\ last' = [op |-> "atomic_write", write |-> write, result |-> r.result,
                       versionstamp |-> IF r.result = "Some" THEN Some(r.versionstamp) ELSE None,
                       pre |-> database]
           /\ committed' = IF r.result = "Some" THEN Append(committed, r.versionstamp)
                           ELSE committed
           /\ UNCHANGED <<listing, inflight, outcome>>

\* a long write given to Database.atomic_write(write), and the same checks and
\* mutations given to kvAtomicWrite as AtomicOperation.commit() gives them
LongWriteStep ==
  /\ last.op = "idle"
  /\ data_version < MaxVersion
  /\ \E write \in LongWrite :
       LET r == atomic_write(database, write, FALSE)
       IN  /\ kv' = r.db.kv
           /\ data_version' = r.db.data_version
           /\ last' = [op |-> "long_write", write |-> write, result |-> r.result,
                       commit |-> [settled |-> "fulfilled",
                                   value |-> KvCommitResult(
                                     kvAtomicWrite(database, write.checks, write.mutations))],
                       pre |-> database]
           /\ committed' = IF r.result = "Some" THEN Append(committed, r.versionstamp)
                           ELSE committed
           /\ UNCHANGED <<listing, inflight, outcome>>

\* Kv.atomic().commit()
CommitStep ==
  /\ last.op = "idle"
  /\ last' = [op |-> "commit", operation |-> AtomicOperation(database),
              result |-> AtomicOperation_commit(database, AtomicOperation(database)),
              pre |-> database]
  /\ UNCHANGED <<listing, kv, data_version, committed, inflight, outcome>>

\* Kv.set(key, value)
KvSetStep ==
  /\ last.op = "idle"
  /\ \E key \in Keys :
       /\ last' = [op |-> "set", key |-> key, value |-> <<120>>,
                   result |-> Kv_set(database, key, <<120>>), pre |-> database]
       /\ UNCHANGED <<listing, kv, data_version, committed, inflight, outcome>>

\* Kv.get(key)
KvGetStep ==
  /\ last.op = "idle"
  /\ \E key \in Keys :
       /\ last' = [op |-> "get", key |-> key, result |-> Kv_get(database, key),
                   pre |-> database]
       /\ UNCHANGED <<listing, kv, data_version, committed, inflight, outcome>>

\* Kv.delete(key)
KvDeleteStep ==
  /\ last.op = "idle"
  /\ \E key \in Keys :
       LET r == Kv_delete(database, key)
       IN  /\ kv' = r.db.kv
           /\ data_version' = r.db.data_version
           /\ last' = [op |-> "delete", key |-> key, result |-> [settled |-> r.settled],
                       pre |-> database]
           /\ UNCHANGED <<listing, committed, inflight, outcome>>

\* the caller's await returns: the operation's promise has settled and the
\* caller goes on to its next operation
Await ==
  /\ last.op # "idle"
  /\ last' = [op |-> "idle"]
  /\ UNCHANGED <<listing, kv, data_version, committed, inflight, outcome>>

Next ==
  \/ AtomicWriteStep
  \/ LongWriteStep
  \/ CommitStep
  \/ KvSetStep
  \/ KvGetStep
  \/ KvDeleteStep
  \/ Await

Spec == Init /\ [][Next]_vars

(***************************************************************************)
(* Two callers race: both submit their write before either runs, and the   *)
(* database runs the two writes one after the other in either order.       *)
(***************************************************************************)
\* the database is new, or holds key "a" from one committed set
InitRace ==
  \E seed \in {[checks |-> <<>>, mutations |-> <<>>],
                [checks |-> <<>>,
                 mutations |-> <<[key |-> "a", kind |-> [tag |-> "Set",
                                   value |-> [kind |-> "V8", value |-> V8X]]]>>]} :
    LET empty == [kv |-> [k \in Keys |-> None], data_version |-> 0]
        opened == IF seed.mutations = <<>> THEN [db |-> empty]
                  ELSE atomic_write(empty, seed, FALSE)
    IN  /\ kv = opened.db.kv
        /\ data_version = opened.db.data_version
        /\ committed = IF seed.mutations = <<>> THEN <<>> ELSE <<opened.versionstamp>>
        /\ last = [op |-> "idle"]
        /\ inflight = [w \in Writers |-> None]
        /\ outcome = [w \in Writers |-> None]
        /\ listing = [phase |-> "none"]

\* op_kv_atomic_write: a caller hands its AtomicWrite to the database
Submit(w) ==
  /\ inflight[w] = None
  /\ \E write \in RaceWrite : inflight' = [inflight EXCEPT ![w] = Some(write)]
  /\ UNCHANGED <<listing, kv, data_version, last, committed, outcome>>

\* Database.atomic_write runs the write of caller w
Execute(w) ==
  /\ \A v \in Writers : inflight[v] # None
  /\ outcome[w] = None
  /\ \E commit_fails \in BOOLEAN :
       LET r == atomic_write(database, inflight[w][1], commit_fails)
       IN  /\ kv' = r.db.kv
           /\ data_version' = r.db.data_version
           /\ committed' = IF r.result = "Some" THEN Append(committed, r.versionstamp)
                           ELSE committed
           /\ outcome' = [outcome EXCEPT ![w] =
                Some([result |-> r.result,
                      versionstamp |-> IF r.result = "Some" THEN Some(r.versionstamp) ELSE None,
                      pre |-> database, post |-> r.db])]
  /\ UNCHANGED <<listing, last, inflight>>

NextRace == \E w \in Writers : Submit(w) \/ Execute(w)

SpecRace == InitRace /\ [][NextRace]_vars

(***************************************************************************)
(* atomic_write statement by statement, with an observer on another        *)
(* connection.  db.transaction() (line 27) opens a SQLite transaction: its *)
(* statements act on the transaction's view of the tables, tx.commit()     *)
(* (line 79) publishes that view, and leaving the function with the        *)
(* transaction uncommitted (return Ok(None), or an Err through `?`) drops  *)
(* tx, which rolls it back.  inflight[1] holds the open transaction,       *)
(* outcome[1] the result of the latest finished write, last what the       *)
(* observer has just read.                                                 *)
(***************************************************************************)
\* the writes of the stepwise writer: at most one check, sets, deletes and sums
TxMutation == RaceMutation \cup [key : {"b"}, kind : SetKind]
TxWrite ==
  [checks : SubListsUpTo(KvCheck(version_to_versionstamp(1)), 1),
   mutations : SeqsUpTo(TxMutation, MaxTxMutations)]

\* what a read on another connection sees while `open` (None or the open
\* transaction) has not committed: the committed tables
snapshot_read_Uncommitted(stored, open) == IF open = None THEN stored ELSE open[1].tx
snapshot_read(stored, open) == stored

\* the writer returns: tx is gone, the result is noted
Finished(t, result) == [result |-> result, write |-> t.write, pre |-> t.pre]

InitTx ==
  /\ kv = [k \in Keys |-> None]
  /\ data_version = 0
  /\ last = [op |-> "idle"]
  /\ committed = <<>>
  /\ inflight = [w \in Writers |-> None]
  /\ outcome = [w \in Writers |-> None]
  /\ listing = [phase |-> "none"]

\* line 27: let tx = db.transaction()
TxBegin ==
  /\ last.op = "idle"
  /\ inflight[1] = None
  /\ data_version < MaxTxVersion
  /\ \E write \in TxWrite :
       inflight' = [inflight EXCEPT ![1] =
         Some([write |-> write, pre |-> database, tx |-> database,
               pc |-> "checks", i |-> 1, version |-> 0])]
  /\ outcome' = [outcome EXCEPT ![1] = None]
  /\ UNCHANGED <<kv, data_version, last, committed, listing>>

\* lines 29-38: one turn of the loop over write.checks
TxCheck ==
  /\ last.op = "idle"
  /\ inflight[1] # None
  /\ inflight[1][1].pc = "checks"
  /\ LET t == inflight[1][1]
     IN  IF t.i > Len(t.write.checks)
           THEN /\ inflight' = [inflight EXCEPT ![1] = Some([t EXCEPT !.pc = "version"])]
                /\ UNCHANGED outcome
         ELSE IF CheckFails(t.tx.kv, t.write.checks[t.i])
           THEN /\ inflight' = [inflight EXCEPT ![1] = None]
                /\ outcome' = [outcome EXCEPT ![1] = Some(Finished(t, "None"))]
         ELSE /\ inflight' = [inflight EXCEPT ![1] = Some([t EXCEPT !.i = @ + 1])]
              /\ UNCHANGED outcome
  /\ UNCHANGED <<kv, data_version, last, committed, listing>>

\* lines 40-42: STATEMENT_INC_AND_GET_DATA_VERSION
TxIncVersion ==
  /\ last.op = "idle"
  /\ inflight[1] # None
  /\ inflight[1][1].pc = "version"
  /\ LET t == inflight[1][1]
         version == STATEMENT_INC_AND_GET_DATA_VERSION(t.tx.data_version)
     IN  inflight' = [inflight EXCEPT ![1] =
           Some([t EXCEPT !.tx.data_version = version, !.version = version,
                          !.pc = "mutations", !.i = 1])]
  /\ UNCHANGED <<kv, data_version, last, committed, outcome, listing>>

\* lines 44-75: one turn of the loop over write.mutations
TxMutate ==
  /\ last.op = "idle"
  /\ inflight[1] # None
  /\ inflight[1][1].pc = "mutations"
  /\ LET t == inflight[1][1]
     IN  IF t.i > Len(t.write.mutations)
           THEN /\ inflight' = [inflight EXCEPT ![1] = Some([t EXCEPT !.pc = "commit"])]
                /\ UNCHANGED outcome
         ELSE LET r == ApplyMutation(t.tx.kv, t.write.mutations[t.i], t.version)
              IN  IF r.ok
                    THEN /\ inflight' = [inflight EXCEPT ![1] =
                              Some([t EXCEPT !.tx.kv = r.table, !.i = @ + 1])]
                         /\ UNCHANGED outcome
                  ELSE /\ inflight' = [inflight EXCEPT ![1] = None]
                       /\ outcome' = [outcome EXCEPT ![1] = Some(Finished(t, "Err"))]
  /\ UNCHANGED <<kv, data_version, last, committed, listing>>

\* lines 79-85: tx.commit()?, then Ok(Some(CommitResult))
TxCommit ==
  /\ last.op = "idle"
  /\ inflight[1] # None
  /\ inflight[1][1].pc = "commit"
  /\ LET t == inflight[1][1]
     IN  \E commit_fails \in BOOLEAN :
           /\ inflight' = [inflight EXCEPT ![1] = None]
           /\ IF commit_fails
                THEN /\ outcome' = [outcome EXCEPT ![1] = Some(Finished(t, "Err"))]
                     /\ UNCHANGED <<kv, data_version, committed>>
              ELSE /\ outcome' = [outcome EXCEPT ![1] = Some(Finished(t, "Some"))]
                   /\ kv' = t.tx.kv
                   /\ data_version' = t.tx.data_version
                   /\ committed' = Append(committed, version_to_versionstamp(t.version))
  /\ UNCHANGED <<last, listing>>

\* a read of both tables on another connection, at any point of the write
Observe ==
  /\ last.op = "idle"
  /\ last' = [op |-> "observe", seen |-> snapshot_read(database, inflight[1]),
              during |-> inflight[1], finished |-> outcome[1]]
  /\ UNCHANGED <<kv, data_version, committed, inflight, outcome, listing>>

NextTx == TxBegin \/ TxCheck \/ TxIncVersion \/ TxMutate \/ TxCommit \/ Observe \/ Await

SpecTx == InitTx /\ [][NextTx]_vars

(***************************************************************************)
(* One listing over a table that does not change: an iterator is           *)
(* constructed, next() is called on it again and again, its cursor is      *)
(* read, and a second iterator is constructed from a cursor read after a    *)
(* yield, with the selector and the options of the first.                   *)
(***************************************************************************)
\* the cursor getter has not been called since the last next()
Unread == [thrown |-> "unread"]

\* the limit option: not given, or 0..MaxLimit
LimitOption == {None} \cup {Some(n) : n \in 0..MaxLimit}

\* the cursor option: not given, "", or the cursor of key <<1, 1>> from an
\* earlier listing of the same selector
CursorOption(selector) == {None, Some(EmptyCursor), Some(encodeCursor(selector, <<1, 1>>))}

InitList ==
  /\ kv = [k \in Keys |-> None]
  /\ data_version = 0
  /\ last = [op |-> "idle"]
  /\ committed = <<>>
  /\ inflight = [w \in Writers |-> None]
  /\ outcome = [w \in Writers |-> None]
  /\ \E n \in 0..MaxRows : listing = [phase |-> "new", table |-> ListTable(n)]

\* new KvListIterator({...})
Construct ==
  /\ listing.phase = "new"
  /\ \E selector \in KvListSelector, limit \in LimitOption, reverse \in BOOLEAN,
        batchSize \in 1..MaxBatchSize :
     \E cursor \in CursorOption(selector) :
       LET made == KvListIterator(limit, selector, cursor, reverse, batchSize)
       IN  listing' =
             IF made.thrown # ""
               THEN [phase |-> "rejected", table |-> listing.table, thrown |-> made.thrown,
                     selector |-> selector, scans |-> 0]
             ELSE [phase |-> "open", table |-> listing.table, it |-> made,
                   selector |-> selector, cursor |-> cursor, yielded |-> <<>>, scans |-> 0, result |-> "none",
                   after_done |-> 0, done_scans |-> 0, read |-> Unread, resumed |-> None,
                   short |-> None, pull |-> None]
  /\ UNCHANGED <<kv, data_version, last, committed, inflight, outcome>>

\* iterator.next()
ListNext ==
  /\ listing.phase = "open"
  /\ listing.result = "done" => listing.after_done < MaxCallsAfterDone
  /\ LET r == KvListIterator_next(listing.it, listing.table)
     IN  listing' =
           [listing EXCEPT
              !.it = r.it,
              !.yielded = IF r.done THEN @ ELSE Append(@, r.value),
              !.scans = @ + r.scanned,
              !.result = IF r.done THEN "done" ELSE "entry",
              !.after_done = IF listing.result = "done" THEN @ + 1 ELSE @,
              !.done_scans = IF listing.result # "done" /\ r.done THEN listing.scans + r.scanned
                             ELSE @,
              !.read = Unread,
              !.short = IF ~listing.it.lastBatch /\ r.it.lastBatch
                          THEN Some([scans |-> listing.scans + r.scanned,
                                     batch |-> Reverse(Fill(listing.it, listing.table).entries[1]),
                                     n |-> Len(listing.yielded)])
                        ELSE @,
              !.pull = IF r.scanned > 0
                         THEN Some([cursor |-> listing.it.cursorGen, n |-> Len(listing.yielded)])
                       ELSE @]
  /\ UNCHANGED <<kv, data_version, last, committed, inflight, outcome>>

\* iterator.cursor
ReadCursor ==
  /\ listing.phase = "open"
  /\ listing.read = Unread
  /\ listing' = [listing EXCEPT !.read = KvListIterator_cursor(listing.it)]
  /\ UNCHANGED <<kv, data_version, last, committed, inflight, outcome>>

\* new KvListIterator({..., cursor: iterator.cursor}) right after a yield
Resume ==
  /\ listing.phase = "open"
  /\ listing.result = "entry"
  /\ listing.resumed = None
  /\ LET cursor == KvListIterator_cursor(listing.it)
         fresh == KvListIterator(listing.it.limit, listing.it.selector, Some(cursor.value),
                                 listing.it.reverse, listing.it.batchSize)
     IN  /\ cursor.thrown = ""
         /\ listing' = [listing EXCEPT !.resumed =
              Some([n |-> Len(listing.yielded), it |-> fresh, yielded |-> <<>>,
                    scans |-> 0, result |-> "none"])]
  /\ UNCHANGED <<kv, data_version, last, committed, inflight, outcome>>

\* next() of the iterator constructed from the cursor, once the first is done
ResumedNext ==
  /\ listing.phase = "open"
  /\ listing.result = "done"
  /\ listing.resumed # None
  /\ listing.resumed[1].result # "done"
  /\ LET resumed == listing.resumed[1]
         r == KvListIterator_next(resumed.it, listing.table)
     IN  listing' = [listing EXCEPT !.resumed =
           Some([resumed EXCEPT
                   !.it = r.it,
                   !.yielded = IF r.done THEN @ ELSE Append(@, r.value),
                   !.scans = @ + r.scanned,
                   !.result = IF r.done THEN "done" ELSE "entry"])]
  /\ UNCHANGED <<kv, data_version, last, committed, inflight, outcome>>

NextList == Construct \/ ListNext \/ ReadCursor \/ Resume \/ ResumedNext

SpecList == InitList /\ [][NextList]_vars

(***************************************************************************)
(* One iterator whose caller does not await a next() before calling next() *)
(* again.  next() is an async function: a call runs to its await of        *)
(* #pullBatch (line 133), which issues the scan, and resumes with the      *)
(* batch in a later step; a call that needs no batch runs to its return.   *)
(* Scans are reads of the database and may finish in any order.            *)
(***************************************************************************)
\* the selector of the shared iterator: every key under the prefix [1]
PrefixOne == [prefix |-> Some(<<1>>), start |-> None, end |-> None]

\* a next() call that has returned its result, and one suspended at its await
Resolved(r) ==
  [pending |-> FALSE, batch |-> <<>>, done |-> r.done,
   value |-> IF r.done THEN None ELSE Some(r.value)]
Suspended(batch) == [pending |-> TRUE, batch |-> batch, done |-> FALSE, value |-> None]

\* the calls whose scan is outstanding
Outstanding == {i \in 1..Len(listing.calls) : listing.calls[i].pending}

InitOverlap ==
  /\ kv = [k \in Keys |-> None]
  /\ data_version = 0
  /\ last = [op |-> "idle"]
  /\ committed = <<>>
  /\ inflight = [w \in Writers |-> None]
  /\ outcome = [w \in Writers |-> None]
  /\ \E n \in 0..MaxRows : listing = [phase |-> "new", table |-> ListTable(n)]

\* new KvListIterator({selector: {prefix: [1]}, ...})
ConstructShared ==
  /\ listing.phase = "new"
  /\ \E limit \in LimitOption, reverse \in BOOLEAN, batchSize \in 1..MaxBatchSize :
       listing' = [phase |-> "calls", table |-> listing.table,
                   it |-> KvListIterator(limit, PrefixOne, None, reverse, batchSize),
                   calls |-> <<>>, yielded |-> <<>>, scans |-> 0]
  /\ UNCHANGED <<kv, data_version, last, committed, inflight, outcome>>

\* iterator.next() up to its first await or, without one, to its return
CallNext ==
  /\ listing.phase = "calls"
  /\ Len(listing.calls) < MaxCalls
  /\ LET it == listing.it
     IN  listing' =
           IF Fused(it)
             THEN [listing EXCEPT !.calls = Append(@, Resolved([done |-> TRUE]))]
           ELSE IF NeedsBatch(it)
             THEN [listing EXCEPT
                     !.calls = Append(@, Suspended(pullBatch(listing.table, it.batchSize,
                                                             it.selector, it.cursorGen,
                                                             it.reverse))),
                     !.scans = @ + 1]
           ELSE LET r == Pop(it, 0)
                IN  [listing EXCEPT
                       !.it = r.it,
                       !.calls = Append(@, Resolved(r)),
                       !.yielded = IF r.done THEN @ ELSE Append(@, r.value)]
  /\ UNCHANGED <<kv, data_version, last, committed, inflight, outcome>>

\* the scan of call i returns and the call runs from its await to its return
ContinueNext(i) ==
  /\ listing.phase = "calls"
  /\ i \in Outstanding
  /\ LET r == Pop(StoreBatch(listing.it, listing.calls[i].batch), 1)
     IN  listing' = [listing EXCEPT
                       !.it = r.it,
                       !.calls[i] = Resolved(r),
                       !.yielded = IF r.done THEN @ ELSE Append(@, r.value)]
  /\ UNCHANGED <<kv, data_version, last, committed, inflight, outcome>>

NextOverlap == ConstructShared \/ CallNext \/ \E i \in 1..MaxCalls : ContinueNext(i)

SpecOverlap == InitOverlap /\ [][NextOverlap]_vars

(***************************************************************************)
(* The key codec.  The sources transliterate Rust: `key[0]` stands for     *)
(* key.0, the Vec<KeyPart> of the key, and match(part, [[pattern, arm],    *)
(* ...]) for a match on the part's variant that runs the arm of the        *)
(* variant and nothing when no arm names it.  The helpers of rs-ponyfill   *)
(* are taken as written.  A part is [kind, bytes, n]: bytes for Bytes and  *)
(* String (the UTF-8 bytes), n for Int and Float; the floats modelled are  *)
(* whole numbers, none a NaN, on which canonicalize_f64 changes nothing    *)
(* and total_cmp is the numeric order.                                     *)
(***************************************************************************)
\* const STRING: u8 = 0x02 (STRING is a word of TLA+)
STRING_TAG == 2

\* enum KeyPart { Bytes(Vec<u8>), String(String), Int(BigInt), Float(f64), False, True }
KeyPart_Bytes(bytes) == [kind |-> "Bytes", bytes |-> bytes, n |-> 0]
KeyPart_String(bytes) == [kind |-> "String", bytes |-> bytes, n |-> 0]
KeyPart_Int(n) == [kind |-> "Int", bytes |-> <<>>, n |-> n]
KeyPart_Float(n) == [kind |-> "Float", bytes |-> <<>>, n |-> n]
KeyPart_False == [kind |-> "False", bytes |-> <<>>, n |-> 0]
KeyPart_True == [kind |-> "True", bytes |-> <<>>, n |-> 0]

\* the parts keys are built from: the bytes [1], the strings "a" and "b", the
\* bigints 0n and 1n, the number 1.0, false and true
KeyPart ==
  {KeyPart_Bytes(<<1>>), KeyPart_String(<<97>>), KeyPart_String(<<98>>),
   KeyPart_Int(0), KeyPart_Int(1), KeyPart_Float(1), KeyPart_False, KeyPart_True}

\* struct Key(Vec<KeyPart>)
Key == SeqsUpTo(KeyPart, MaxKeyParts)

\* KeyPart::tag_ordering
tag_ordering(part) ==
  IF part.kind = "Bytes" THEN 0
  ELSE IF part.kind = "String" THEN 1
  ELSE IF part.kind = "Int" THEN 2
  ELSE IF part.kind = "Float" THEN 3
  ELSE IF part.kind = "False" THEN 4
  ELSE 5

\* the order of integers
IntCmp(a, b) == IF a < b THEN "Less" ELSE IF a = b THEN "Equal" ELSE "Greater"

\* the order of byte strings: bytewise, a proper prefix first
RECURSIVE BytesCmp(_, _)
BytesCmp(x, y) ==
  IF x = <<>> THEN (IF y = <<>> THEN "Equal" ELSE "Less")
  ELSE IF y = <<>> THEN "Greater"
  ELSE IF Head(x) # Head(y) THEN IntCmp(Head(x), Head(y))
  ELSE BytesCmp(Tail(x), Tail(y))

\* impl Ord for KeyPart: cmp
KeyPart_cmp(self, other) ==
  IF self.kind = other.kind /\ self.kind \in {"Bytes", "String"}
    THEN BytesCmp(self.bytes, other.bytes)
  ELSE IF self.kind = other.kind /\ self.kind \in {"Int", "Float"}
    THEN IntCmp(self.n, other.n)
  ELSE IntCmp(tag_ordering(self), tag_ordering(other))

\* the order of keys: that of Vec<KeyPart>, part by part, a proper prefix first
RECURSIVE Key_cmp(_, _)
Key_cmp(x, y) ==
  IF x = <<>> THEN (IF y = <<>> THEN "Equal" ELSE "Less")
  ELSE IF y = <<>> THEN "Greater"
  ELSE IF KeyPart_cmp(Head(x), Head(y)) # "Equal" THEN KeyPart_cmp(Head(x), Head(y))
  ELSE Key_cmp(Tail(x), Tail(y))

\* escape_raw_bytes_into(output, bytes): output.length = 0, then the bytes as they are
escape_raw_bytes_into(output, bytes) == bytes

\* bigint.encode_into(output, n): an empty body
bigint_encode_into(output, n) == output

\* encode_key, lines 49-64: the arm of one part
EncodePart(output, part) ==
  IF part.kind = "String"
    THEN Append(escape_raw_bytes_into(Append(output, STRING_TAG), part.bytes), 0)
  ELSE IF part.kind = "Int" THEN bigint_encode_into(output, part.n)
  ELSE output

\* encode_key(key), lines 46-67: the output after the parts from index i on
RECURSIVE EncodeFrom(_, _, _)
EncodeFrom(output, key, i) ==
  IF i > Len(key) THEN output ELSE EncodeFrom(EncodePart(output, key[i]), key, i + 1)
encode_key(key) == EncodeFrom(<<>>, key, 1)

\* AnyValue: a part of a key as JavaScript gives it
AnyValue ==
  [type : {"Number", "BigInt"}, n : {0, 1, 2}, bytes : {<<>>}]
    \cup [type : {"Bool"}, n : {0, 1}, bytes : {<<>>}]
    \cup [type : {"String", "Buffer"}, n : {0}, bytes : {<<97>>}]

\* KeyPart.from(value)
KeyPart_from(value) ==
  IF value.type = "Bool" THEN (IF value.n = 0 THEN KeyPart_False ELSE KeyPart_True)
  ELSE IF value.type = "Number" THEN KeyPart_Int(value.n)
  ELSE IF value.type = "BigInt" THEN KeyPart_Int(value.n)
  ELSE IF value.type = "String" THEN KeyPart_String(value.bytes)
  ELSE KeyPart_Bytes(value.bytes)

InitKey ==
  /\ kv = [k \in Keys |-> None]
  /\ data_version = 0
  /\ last = [op |-> "idle"]
  /\ committed = <<>>
  /\ inflight = [w \in Writers |-> None]
  /\ outcome = [w \in Writers |-> None]
  /\ listing = [phase |-> "none"]

\* encode_key of two keys
EncodeKeys ==
  /\ last.op = "idle"
  /\ \E k1, k2 \in Key :
       last' = [op |-> "encode_key", k1 |-> k1, k2 |-> k2,
                e1 |-> encode_key(k1), e2 |-> encode_key(k2)]
  /\ UNCHANGED <<kv, data_version, committed, inflight, outcome, listing>>

\* KeyPart.from of two JavaScript values, and cmp of the two parts
FromValues ==
  /\ last.op = "idle"
  /\ \E v1, v2 \in AnyValue :
       last' = [op |-> "from", v1 |-> v1, v2 |-> v2,
                p1 |-> KeyPart_from(v1), p2 |-> KeyPart_from(v2),
                cmp |-> KeyPart_cmp(KeyPart_from(v1), KeyPart_from(v2))]
  /\ UNCHANGED <<kv, data_version, committed, inflight, outcome, listing>>

NextKey == EncodeKeys \/ FromValues \/ Await

SpecKey == InitKey /\ [][NextKey]_vars

(***************************************************************************)
(* One AtomicOperation from Kv.atomic() and the calls of its builder       *)
(* methods.  inflight[1] holds the operation (its #checks and #mutations), *)
(* last the latest call: the operation before it, what it threw, the       *)
(* operation after it, the database before it.                             *)
(***************************************************************************)
\* the checks a caller passes to check()
AtomicCheck == [key : Keys, versionstamp : {None, Some(version_to_versionstamp(1))}]

\* the record of a builder call on the operation of inflight[1]
Called(method, args, r) ==
  [op |-> "builder", method |-> method, args |-> args, before |-> inflight[1][1],
   thrown |-> r.thrown, after |-> r.operation, pre |-> database]

InitBuilder ==
  /\ kv = [k \in Keys |-> None]
  /\ data_version = 0
  /\ last = [op |-> "idle"]
  /\ committed = <<>>
  /\ inflight = [w \in Writers |-> None]
  /\ outcome = [w \in Writers |-> None]
  /\ listing = [phase |-> "none"]

\* kv.atomic()
KvAtomic ==
  /\ last.op = "idle"
  /\ inflight[1] = None
  /\ inflight' = [inflight EXCEPT ![1] = Some(AtomicOperation(database))]
  /\ UNCHANGED <<kv, data_version, last, committed, outcome, listing>>

\* operation.check(...checks)
CallCheck ==
  /\ last.op = "idle"
  /\ inflight[1] # None
  /\ \E checks \in SeqsUpTo(AtomicCheck, MaxBuilderArgs) :
       LET r == AtomicOperation_check(inflight[1][1], checks)
       IN  /\ last' = Called("check", checks, r)
           /\ inflight' = [inflight EXCEPT ![1] = Some(r.operation)]
  /\ UNCHANGED <<kv, data_version, committed, outcome, listing>>

\* operation.set(key, value)
CallSet ==
  /\ last.op = "idle"
  /\ inflight[1] # None
  /\ \E key \in Keys :
       LET r == PushMutation(inflight[1][1], key, "set", serializeValue(<<120>>))
       IN  /\ last' = Called("set", <<[key |-> key, type |-> "set", value |-> Some(String_x)]>>, r)
           /\ inflight' = [inflight EXCEPT ![1] = Some(r.operation)]
  /\ UNCHANGED <<kv, data_version, committed, outcome, listing>>

\* operation.delete(key)
CallDelete ==
  /\ last.op = "idle"
  /\ inflight[1] # None
  /\ \E key \in Keys :
       LET r == AtomicOperation_delete(inflight[1][1], key)
       IN  /\ last' = Called("delete", <<[key |-> key, type |-> "delete", value |-> None]>>, r)
           /\ inflight' = [inflight EXCEPT ![1] = Some(r.operation)]
  /\ UNCHANGED <<kv, data_version, committed, outcome, listing>>

\* operation.sum(key, 1n), operation.min(key, 1n), operation.max(key, 1n)
CallNumeric ==
  /\ last.op = "idle"
  /\ inflight[1] # None
  /\ \E key \in Keys, method \in {"sum", "min", "max"} :
       LET r == IF method = "sum" THEN AtomicOperation_sum(inflight[1][1], key, U64One)
                ELSE IF method = "min" THEN AtomicOperation_min(inflight[1][1], key, U64One)
                ELSE AtomicOperation_max(inflight[1][1], key, U64One)
       IN  /\ last' = Called(method, <<[key |-> key, type |-> method, value |-> Some(KvU64_One)]>>, r)
           /\ inflight' = [inflight EXCEPT ![1] = Some(r.operation)]
  /\ UNCHANGED <<kv, data_version, committed, outcome, listing>>

\* operation.mutate(...mutations)
CallMutate ==
  /\ last.op = "idle"
  /\ inflight[1] # None
  /\ \E mutations \in SeqsUpTo(MutationObject, MaxBuilderArgs) :
       LET r == AtomicOperation_mutate(inflight[1][1], mutations)
       IN  /\ last' = Called("mutate", mutations, r)
           /\ inflight' = [inflight EXCEPT ![1] = Some(r.operation)]
  /\ UNCHANGED <<kv, data_version, committed, outcome, listing>>

\* operation.commit()
CallCommit ==
  /\ last.op = "idle"
  /\ inflight[1] # None
  /\ last' = [op |-> "commit", operation |-> inflight[1][1],
              result |-> AtomicOperation_commit(database, inflight[1][1]), pre |-> database]
  /\ UNCHANGED <<kv, data_version, committed, inflight, outcome, listing>>

NextBuilder ==
  KvAtomic \/ CallCheck \/ CallSet \/ CallDelete \/ CallNumeric \/ CallMutate \/ CallCommit
    \/ Await

SpecBuilder == InitBuilder /\ [][NextBuilder]_vars

(***************************************************************************)
(* One AtomicOperation committed twice.  commit() hands this.#checks and   *)
(* this.#mutations to the write each time it is called and clears neither, *)
(* so the second commit submits the AtomicWrite of the first; the write is *)
(* run by the reference atomic_write.                                      *)
(***************************************************************************)
\* the database is new, or holds key "a" from one committed set
InitTwice == InitRace

\* the first commit() of the operation: its checks and mutations become one
\* AtomicWrite, and the database runs it
CommitFirst ==
  /\ inflight[1] = None
  /\ \E write \in RaceWrite : \E commit_fails \in BOOLEAN :
       LET r == atomic_write(database, write, commit_fails)
       IN  /\ inflight' = [inflight EXCEPT ![1] = Some(write)]
           /\ kv' = r.db.kv
           /\ data_version' = r.db.data_version
           /\ committed' = IF r.result = "Some" THEN Append(committed, r.versionstamp)
                           ELSE committed
           /\ outcome' = [outcome EXCEPT ![1] =
                Some([result |-> r.result,
                      versionstamp |-> IF r.result = "Some" THEN Some(r.versionstamp) ELSE None,
                      pre |-> database, post |-> r.db])]
  /\ UNCHANGED <<listing, last>>

\* commit() called again on the same object: the same checks and mutations
CommitAgain ==
  /\ inflight[1] # None
  /\ outcome[2] = None
  /\ \E commit_fails \in BOOLEAN :
       LET r == atomic_write(database, inflight[1][1], commit_fails)
       IN  /\ inflight' = [inflight EXCEPT ![2] = inflight[1]]
           /\ kv' = r.db.kv
           /\ data_version' = r.db.data_version
           /\ committed' = IF r.result = "Some" THEN Append(committed, r.versionstamp)
                           ELSE committed
           /\ outcome' = [outcome EXCEPT ![2] =
                Some([result |-> r.result,
                      versionstamp |-> IF r.result = "Some" THEN Some(r.versionstamp) ELSE None,
                      pre |-> database, post |-> r.db])]
  /\ UNCHANGED <<listing, last>>

NextTwice == CommitFirst \/ CommitAgain

SpecTwice == InitTwice /\ [][NextTwice]_vars

(***************************************************************************)
(* Kv.getMany beside the atomic writes of other connections to the same    *)
(* database.  getMany starts one get() per key; each get() runs its own    *)
(* SELECT as a statement of its own, and no transaction spans them, so a   *)
(* write may commit between two of the SELECTs.                            *)
(***************************************************************************)
\* the stored text "1" or "2": JSON.parse reads it as a number
Digit(n) == [kind |-> "Bytes", value |-> <<48 + n>>]

\* an atomic write that sets each key of keys to value, without checks
SetAll(keys, value) ==
  [checks |-> <<>>,
   mutations |-> [i \in 1..Len(keys) |->
                    [key |-> keys[i], kind |-> [tag |-> "Set", value |-> value]]]]

\* the key lists of getMany and of the writes
KeyLists == {<<"a">>, <<"b">>, <<"a", "b">>, <<"b", "a">>}

\* the database holds "a" and "b" from one committed write
InitGetMany ==
  LET empty == [kv |-> [k \in Keys |-> None], data_version |-> 0]
      opened == atomic_write(empty, SetAll(<<"a", "b">>, Digit(1)), FALSE)
  IN  /\ kv = opened.db.kv
      /\ data_version = opened.db.data_version
      /\ committed = <<opened.versionstamp>>
      /\ last = [op |-> "idle"]
      /\ inflight = [w \in Writers |-> None]
      /\ outcome = [w \in Writers |-> None]
      /\ listing = [phase |-> "none"]

\* Kv.getMany(keys) is called: every get() has been started, none has read
GetManyCall ==
  /\ listing.phase = "none"
  /\ \E keys \in KeyLists :
       listing' = [phase |-> "getMany", keys |-> keys, results |-> <<>>, writes |-> <<>>,
                   result |-> [settled |-> "pending"]]
  /\ UNCHANGED <<kv, data_version, last, committed, inflight, outcome>>

\* the SELECT of the next get() runs and the get() settles; after the last one
\* Promise.all settles and getMany returns the entries
GetManyRead ==
  /\ listing.phase = "getMany"
  /\ Len(listing.results) < Len(listing.keys)
  /\ LET results == Append(listing.results,
                           Kv_get(database, listing.keys[Len(listing.results) + 1]))
     IN  listing' = [listing EXCEPT
           !.results = results,
           !.result = IF Len(results) = Len(listing.keys)
                      THEN Kv_getMany(listing.keys, results) ELSE @]
  /\ UNCHANGED <<kv, data_version, last, committed, inflight, outcome>>

\* another connection commits an atomic write that sets one key or both
WriteDuring ==
  /\ listing.phase = "getMany"
  /\ listing.result.settled = "pending"
  /\ Len(listing.writes) < MaxGetManyWrites
  /\ \E keys \in KeyLists :
       LET r == atomic_write(database, SetAll(keys, Digit(2)), FALSE)
       IN  /\ kv' = r.db.kv
           /\ data_version' = r.db.data_version
           /\ committed' = Append(committed, r.versionstamp)
           /\ listing' = [listing EXCEPT
                 !.writes = Append(@, [keys |-> keys, version |-> r.db.data_version,
                                      reads |-> Len(listing.results)])]
  /\ UNCHANGED <<last, inflight, outcome>>

NextGetMany == GetManyCall \/ GetManyRead \/ WriteDuring

SpecGetMany == InitGetMany /\ [][NextGetMany]_vars

(***************************************************************************)
(* One listing beside atomic writes.  Each batch is one scan of the table  *)
(* as it is when next() asks for it; writes that set or delete keys of the *)
(* listed range commit between the calls of next().                        *)
(***************************************************************************)
\* the keys a writer sets or deletes: those under the prefix [1]
LiveKeys == {<<1, i>> : i \in 1..(MaxLiveRows + 1)}

\* no listing yet
InitLive == Init

\* kv.list({prefix: [1]}, {reverse, batchSize}) over a table of n rows under the prefix
ConstructLive ==
  /\ listing.phase = "none"
  /\ \E n \in 0..MaxLiveRows : \E reverse \in BOOLEAN : \E batchSize \in 1..MaxBatchSize :
       listing' = [phase |-> "live", table |-> ListTable(n),
                   it |-> KvListIterator(None, PrefixOne, None, reverse, batchSize),
                   yielded |-> <<>>, scans |-> 0, writes |-> <<>>]
  /\ UNCHANGED <<kv, data_version, last, committed, inflight, outcome>>

\* iterator.next() on the table as the writes have left it
LiveNext ==
  /\ listing.phase = "live"
  /\ ~listing.it.done
  /\ LET r == KvListIterator_next(listing.it, listing.table)
     IN  listing' = [listing EXCEPT
           !.it = r.it,
           !.yielded = IF r.done THEN @ ELSE Append(@, r.value),
           !.scans = @ + r.scanned]
  /\ UNCHANGED <<kv, data_version, last, committed, inflight, outcome>>

\* an atomic write that sets or deletes one key of the range commits
LiveWrite ==
  /\ listing.phase = "live"
  /\ ~listing.it.done
  /\ Len(listing.writes) < MaxLiveWrites
  /\ \E key \in LiveKeys : \E tag \in {"Set", "Delete"} :
       listing' = [listing EXCEPT
         !.table = IF tag = "Set" THEN @ \cup {key} ELSE @ \ {key},
         !.writes = Append(@, [tag |-> tag, key |-> key, scans |-> listing.scans,
                               stored |-> key \in listing.table])]
  /\ UNCHANGED <<kv, data_version, last, committed, inflight, outcome>>

NextLive == ConstructLive \/ LiveNext \/ LiveWrite

SpecLive == InitLive /\ [][NextLive]_vars

(***************************************************************************)
(* withGlobal(variables, callback).  window is the global object: a name   *)
(* is absent from it, or holds undefined or a value.  A callback returns a *)
(* value, throws, or returns a promise that settles in a later step; the   *)
(* callbacks themselves leave the globals alone.                           *)
(***************************************************************************)
\* the names ts-wrapper sets
GlobalNames == {"Deno", "__bootstrap"}

\* a property that is not on the object, and the value undefined
Absent == [on |-> FALSE, value |-> 0]
Holds(value) == [on |-> TRUE, value |-> value]
JsUndefined == 0

\* window[name]: undefined for a name that is absent
WindowGet(window, name) == IF window[name].on THEN window[name].value ELSE JsUndefined

\* the variables argument: a name is given with a value, or not given
GlobalVariables == [GlobalNames -> {None, Some(1), Some(2)}]

\* line 19: mapValues(variables, (value, name) => window[name])
Backups(window, variables) ==
  [name \in GlobalNames |->
     IF variables[name] = None THEN None ELSE Some(WindowGet(window, name))]

\* lines 21-23 and 29-32: forEach(values, (value, name) => { window[name] = value })
SetGlobals(window, values) ==
  [name \in GlobalNames |->
     IF values[name] = None THEN window[name] ELSE Holds(values[name][1])]

\* withGlobal up to its return (or to the throw of the callback): the window
\* the callback ran with, the window left behind, and whether cleanup waits
\* for the promise
withGlobal_CleansUpAtReturn(window, variables, returns) ==
  LET backups == Backups(window, variables)
      during == SetGlobals(window, variables)
  IN  [backups |-> backups, during |-> during,
       window |-> SetGlobals(during, backups),
       pending |-> returns = "promise",
       thrown |-> returns = "throws"]
withGlobal(window, variables, returns) ==
  LET backups == Backups(window, variables)
      during == SetGlobals(window, variables)
  IN  [backups |-> backups, during |-> during,
       window |-> IF returns = "promise" THEN during ELSE SetGlobals(during, backups),
       pending |-> returns = "promise",
       thrown |-> returns = "throws"]

\* the calls whose promise has not settled
PendingCalls(calls) == {i \in 1..Len(calls) : calls[i].pending}

\* the globals before any call: each name absent or set
InitGlobal ==
  /\ kv = [k \in Keys |-> None]
  /\ data_version = 0
  /\ last = [op |-> "idle"]
  /\ committed = <<>>
  /\ inflight = [w \in Writers |-> None]
  /\ outcome = [w \in Writers |-> None]
  /\ \E window \in [GlobalNames -> {Absent, Holds(3)}] :
       listing = [phase |-> "globals", window |-> window, calls |-> <<>>]

\* withGlobal(variables, callback) is called and returns or throws
CallWithGlobal ==
  /\ Len(listing.calls) < MaxGlobalCalls
  /\ \E variables \in GlobalVariables : \E returns \in {"value", "throws", "promise"} :
       LET r == withGlobal(listing.window, variables, returns)
       IN  listing' = [listing EXCEPT
             !.window = r.window,
             !.calls = Append(@, [variables |-> variables, returns |-> returns,
                                  backups |-> r.backups, before |-> listing.window,
                                  during |-> r.during, returned |-> r.window,
                                  pending |-> r.pending, thrown |-> r.thrown,
                                  overlaps |-> PendingCalls(listing.calls),
                                  settled |-> "", dirty |-> r.during,
                                  cleaned |-> r.window])]
  /\ UNCHANGED <<kv, data_version, last, committed, inflight, outcome>>

\* the promise a callback returned is fulfilled or rejected: cleanup runs (line 34)
SettleCall(i) ==
  /\ i \in PendingCalls(listing.calls)
  /\ \E settled \in {"fulfilled", "rejected"} :
       LET window == SetGlobals(listing.window, listing.calls[i].backups)
       IN  listing' = [listing EXCEPT
             !.window = window,
             !.calls[i].pending = FALSE,
             !.calls[i].settled = settled,
             !.calls[i].dirty = listing.window,
             !.calls[i].cleaned = window]
  /\ UNCHANGED <<kv, data_version, last, committed, inflight, outcome>>

NextGlobal == CallWithGlobal \/ \E i \in 1..MaxGlobalCalls : SettleCall(i)

SpecGlobal == InitGlobal /\ [][NextGlobal]_vars

(***************************************************************************)
(* Properties.                                                             *)
(***************************************************************************)
\* the versionstamp stored for key k, None when k has no row
StoredVersionstamp(table, k) ==
  IF table[k] = None THEN None ELSE Some(version_to_versionstamp(table[k][1].version))

\* at least one of the checks does not hold in table
SomeCheckDoesNotHold(table, checks) ==
  \E i \in 1..Len(checks) : StoredVersionstamp(table, checks[i].key) # checks[i].versionstamp

\* the indices of the mutations that target key k
Targeting(mutations, k) == {i \in 1..Len(mutations) : mutations[i].key = k}

\* the largest element of a non-empty set of numbers
Largest(S) == CHOOSE n \in S : \A m \in S : m <= n

\* C1: when at least one check of an atomic write does not hold (an absent key
\* has versionstamp None), the write applies none of its mutations: the table kv
\* and the version counter are the same after it as before it.
C1_FailedCheckAppliesNothing ==
  (last.op = "atomic_write" /\ SomeCheckDoesNotHold(last.pre.kv, last.write.checks))
    => (kv = last.pre.kv /\ data_version = last.pre.data_version)

\* C1 happens: two checks of which one holds and one fails, on a database that
\* holds data, in a write that carries mutations
C1_Witness ==
  /\ last.op = "atomic_write"
  /\ Len(last.write.checks) = 2
  /\ SomeCheckDoesNotHold(last.pre.kv, last.write.checks)
  /\ \E i \in 1..2 :
       StoredVersionstamp(last.pre.kv, last.write.checks[i].key)
         = last.write.checks[i].versionstamp
  /\ Len(last.write.mutations) > 0
  /\ last.pre.kv["a"] # None

\* C2: a write whose checks all hold is not reported as a check failure, and
\* when it commits every mutation is applied: a key no mutation targets keeps
\* its row, a key whose last mutation is a delete is absent, and every other
\* targeted key is present, holds the value of a final set (a u64 after a final
\* sum, min or max) and carries the versionstamp of the commit result.
C2_AllMutationsAppliedUnderOneVersionstamp ==
  last.op = "atomic_write" =>
    /\ ~SomeCheckDoesNotHold(last.pre.kv, last.write.checks) => last.result # "None"
    /\ last.result = "Some" =>
         \A k \in Keys :
           LET targeting == Targeting(last.write.mutations, k)
           IN  IF targeting = {} THEN kv[k] = last.pre.kv[k]
               ELSE LET kind == last.write.mutations[Largest(targeting)].kind
                    IN  IF kind.tag = "Delete" THEN kv[k] = None
                        ELSE /\ kv[k] # None
                             /\ StoredVersionstamp(kv, k) = last.versionstamp
                             /\ kind.tag = "Set" => kv[k][1].v = kind.value.value
                             /\ kind.tag # "Set" => kv[k][1].v_encoding = "LE64"

\* C2 happens: a committed write with a check that sums into "a" and sets "b",
\* both rows present afterwards, over an existing row of "a"
C2_Witness ==
  /\ last.op = "atomic_write"
  /\ last.result = "Some"
  /\ Len(last.write.checks) > 0
  /\ Len(last.write.mutations) = 2
  /\ last.write.mutations[1].key = "a"
  /\ last.write.mutations[1].kind.tag = "Sum"
  /\ last.write.mutations[2].key = "b"
  /\ last.pre.kv["a"] # None
  /\ kv["a"] # None
  /\ kv["b"] # None

\* the two racing writes have run
BothRan == \A w \in Writers : outcome[w] # None

\* the two racing writes check the same key against the same versionstamp and
\* both mutate that key
RaceOnOneKey ==
  /\ inflight[1][1].checks = inflight[2][1].checks
  /\ \A w \in Writers : Targeting(inflight[w][1].mutations, inflight[1][1].checks[1].key) # {}

C4_CommitWithHoldingChecksIsOk ==
  last.op = "commit" => last.result.ok

\* C5: a write with a failing check returns Ok(None), which commit() resolves
\* to {ok: false}; an error (a rejection) comes only from a write none of whose
\* checks fails, so a check failure and a fault never stand for each other.
C5_CheckFailureIsNotAnError ==
  last.op = "atomic_write" =>
    /\ SomeCheckDoesNotHold(last.pre.kv, last.write.checks)
         => (last.result = "None" /\ KvCommitResult(last.versionstamp) = [ok |-> FALSE])
    /\ last.result = "Err" => ~SomeCheckDoesNotHold(last.pre.kv, last.write.checks)
    /\ last.result = "None" => SomeCheckDoesNotHold(last.pre.kv, last.write.checks)

\* C5 happens: a write with mutations fails a check and returns Ok(None)
C5_Witness ==
  /\ last.op = "atomic_write"
  /\ last.result = "None"
  /\ Len(last.write.mutations) > 0
  /\ SomeCheckDoesNotHold(last.pre.kv, last.write.checks)

\* C6: the versionstamps of the committed writes are strictly increasing in
\* commit order, and a committed write's versionstamp is greater than the
\* versionstamp every key carried before it, so a rewritten key's versionstamp
\* strictly increases.
C6_VersionstampsStrictlyIncrease ==
  /\ \A i \in 1..Len(committed) : \A j \in (i + 1)..Len(committed) :
       VersionstampLess(committed[i], committed[j])
  /\ (last.op = "atomic_write" /\ last.result = "Some") =>
       /\ committed[Len(committed)] = last.versionstamp[1]
       /\ \A k \in Keys :
            last.pre.kv[k] # None =>
              /\ VersionstampLess(StoredVersionstamp(last.pre.kv, k)[1], last.versionstamp[1])
              /\ (kv[k] # None /\ Targeting(last.write.mutations, k) # {}
                    /\ last.write.mutations[Largest(Targeting(last.write.mutations, k))].kind.tag
                         # "Delete")
                   => VersionstampLess(StoredVersionstamp(last.pre.kv, k)[1],
                                       StoredVersionstamp(kv, k)[1])

\* C6 happens: the second commit rewrites an existing row of "a"
C6_Witness ==
  /\ Len(committed) = 2
  /\ last.op = "atomic_write"
  /\ last.result = "Some"
  /\ last.pre.kv["a"] # None
  /\ kv["a"] # None
  /\ Targeting(last.write.mutations, "a") # {}

\* C7: a committed write advances the version counter by exactly one whatever
\* the number of its mutations and keys; a write that fails a check (or ends in
\* an error) leaves the counter where it was.
C7_OneIncrementPerCommittedWrite ==
  last.op = "atomic_write" =>
    /\ last.result = "Some" => data_version = last.pre.data_version + 1
    /\ last.result # "Some" => data_version = last.pre.data_version

\* C7 happens: a committed write with two mutations on two keys
C7_Witness ==
  /\ last.op = "atomic_write"
  /\ last.result = "Some"
  /\ Len(last.write.mutations) = 2
  /\ last.write.mutations[1].key # last.write.mutations[2].key
  /\ data_version = last.pre.data_version + 1

\* the row of one key after the first i mutations of a write, applied one after
\* the other to the row it had before
RECURSIVE RowAfter(_, _, _, _, _)
RowAfter(row, mutations, k, i, version) ==
  IF i = 0 THEN row
  ELSE LET before == RowAfter(row, mutations, k, i - 1, version)
           kind == mutations[i].kind
           stored(v, v_encoding) ==
             Some([v |-> v, v_encoding |-> v_encoding, version |-> version])
       IN  IF mutations[i].key # k THEN before
           ELSE IF kind.tag = "Delete" THEN None
           ELSE IF kind.tag = "Set" THEN stored(kind.value.value, "V8")
           ELSE IF before = None THEN stored(kind.value.value, "LE64")
           ELSE IF kind.tag = "Sum" THEN stored(wrapping_add(before[1].v, kind.value.value), "LE64")
           ELSE IF kind.tag = "Min" THEN stored(u64_min(before[1].v, kind.value.value), "LE64")
           ELSE stored(u64_max(before[1].v, kind.value.value), "LE64")

\* C8: the mutations of a committed write are applied in the order of the
\* list: every key ends as the result of applying to its old row, one after the
\* other and in that order, the mutations that target it (a set followed by a
\* delete leaves the key absent, a delete followed by a set leaves it present).
C8_MutationsAppliedInOrder ==
  (last.op = "atomic_write" /\ last.result = "Some") =>
    /\ \A k \in Keys :
         kv[k] = RowAfter(last.pre.kv[k], last.write.mutations, k,
                          Len(last.write.mutations), data_version)
    /\ \A i \in 1..(Len(last.write.mutations) - 1) :
         LET m == last.write.mutations[i]
             n == last.write.mutations[i + 1]
         IN  (i + 1 = Len(last.write.mutations) /\ m.key = n.key) =>
               /\ (m.kind.tag = "Set" /\ n.kind.tag = "Delete") => kv[m.key] = None
               /\ (m.kind.tag = "Delete" /\ n.kind.tag = "Set") => kv[m.key] # None

\* C8 happens: a committed write sets "a" and then deletes it, over an existing
\* row of "a"
C8_Witness ==
  /\ last.op = "atomic_write"
  /\ last.result = "Some"
  /\ Len(last.write.mutations) = 2
  /\ last.write.mutations[1].key = "a"
  /\ last.write.mutations[1].kind.tag = "Set"
  /\ last.write.mutations[2].key = "a"
  /\ last.write.mutations[2].kind.tag = "Delete"
  /\ last.pre.kv["a"] # None
  /\ kv["a"] = None

\* C9 as claimed: Kv.set(key, value) resolves, and a Kv.get(key) that follows
\* it returns that value with the versionstamp that set returned.
C9_ReadYourWrites ==
  last.op = "set" =>
    /\ last.result.settled = "fulfilled"
    /\ Kv_get(database, last.key).settled = "fulfilled"
    /\ Kv_get(database, last.key).value.value = Some(last.value)

\* C10 as claimed: Kv.get of a key with no stored value resolves to
\* {key, value: null, versionstamp: null}.
C10_GetOfAbsentKeyIsNullEntry ==
  (last.op = "get" /\ last.pre.kv[last.key] = None) =>
    /\ last.result.settled = "fulfilled"
    /\ last.result.value = [key |-> last.key, value |-> None, versionstamp |-> None]

\* the indices below i of the mutations that target key k
TargetingBefore(mutations, k, i) == {j \in Targeting(mutations, k) : j < i}

\* mutation i is a sum, min or max
IsNumeric(mutations, i) == mutations[i].kind.tag \in {"Sum", "Min", "Max"}

\* key k has no row when mutation i runs: no earlier mutation of the write
\* targets it and it had none before the write, or the latest earlier one is a delete
AbsentBefore(table, mutations, k, i) ==
  LET earlier == TargetingBefore(mutations, k, i)
  IN  IF earlier = {} THEN table[k] = None
      ELSE mutations[Largest(earlier)].kind.tag = "Delete"

\* key k holds a value that is not a u64 when mutation i runs: it held one before
\* the write and no earlier mutation targets it, or the latest earlier one is a
\* set of such a value
NotU64Before(table, mutations, k, i) ==
  LET earlier == TargetingBefore(mutations, k, i)
  IN  IF earlier = {} THEN table[k] # None /\ table[k][1].v_encoding # "LE64"
      ELSE /\ mutations[Largest(earlier)].kind.tag = "Set"
           /\ mutations[Largest(earlier)].kind.value.kind # "U64"

\* C11 as claimed: a delete (Kv.delete or a delete mutation) of a key without a
\* row changes no row and raises no error; after a delete of a key with a row
\* the key has no row, a check of it against null holds, and Kv.get of it
\* resolves to an entry without value.
C11_DeleteRemovesOrDoesNothing ==
  /\ last.op = "delete" =>
       /\ last.result.settled = "fulfilled"
       /\ last.pre.kv[last.key] = None => kv = last.pre.kv
       /\ last.pre.kv[last.key] # None =>
            /\ kv[last.key] = None
            /\ ~CheckFails(kv, [key |-> last.key, versionstamp |-> None])
            /\ Kv_get(database, last.key).settled = "fulfilled"
            /\ Kv_get(database, last.key).value.value = None
  /\ (last.op = "atomic_write" /\ last.write.checks = <<>> /\ Len(last.write.mutations) = 1
        /\ last.write.mutations[1].kind.tag = "Delete") =>
       LET k == last.write.mutations[1].key
       IN  /\ last.result # "None"
           /\ last.pre.kv[k] = None => kv = last.pre.kv
           /\ (last.result = "Some" /\ last.pre.kv[k] # None) =>
                /\ kv[k] = None
                /\ ~CheckFails(kv, [key |-> k, versionstamp |-> None])
                /\ Kv_get(database, k).settled = "fulfilled"
                /\ Kv_get(database, k).value.value = None

\* C12: a committed sum stores (existing value + operand) modulo 2^64: 1 on
\* 2^64-1 stores 0, 2^64-1 on 1 stores 0, 2^64-1 on 2^64-1 stores 2^64-2, 1 on
\* 1 stores 2; so does a sum of 2^64-1 on an absent key followed in the same
\* write by a sum of 1.
C12_SumWrapsAround ==
  (last.op = "atomic_write" /\ last.result = "Some") =>
    /\ \A k \in Keys :
         LET targeting == Targeting(last.write.mutations, k)
             row == last.pre.kv[k]
         IN  ( /\ Cardinality(targeting) = 1
               /\ last.write.mutations[Largest(targeting)].kind.tag = "Sum"
               /\ row # None
               /\ row[1].v \in {U64One, U64Max} )
             => LET operand == last.write.mutations[Largest(targeting)].kind.value.value
                IN  /\ kv[k] # None
                    /\ kv[k][1].v_encoding = "LE64"
                    /\ kv[k][1].v =
                         IF row[1].v = U64One /\ operand = U64One
                           THEN <<2, 0, 0, 0, 0, 0, 0, 0>>
                         ELSE IF row[1].v = U64Max /\ operand = U64Max
                           THEN <<254, 255, 255, 255, 255, 255, 255, 255>>
                         ELSE U64Zero
    /\ \A k \in Keys :
         ( /\ last.pre.kv[k] = None
           /\ last.write.mutations
                = <<[key |-> k, kind |-> [tag |-> "Sum", value |-> [kind |-> "U64", value |-> U64Max]]],
                    [key |-> k, kind |-> [tag |-> "Sum", value |-> [kind |-> "U64", value |-> U64One]]]>> )
         => (kv[k] # None /\ kv[k][1].v = U64Zero)

\* C12 happens: "a" holds 2^64-1 from an earlier sum on the absent key, and a
\* committed sum of 1 has stored 0
C12_Witness ==
  /\ last.op = "atomic_write"
  /\ last.result = "Some"
  /\ Len(last.write.mutations) = 1
  /\ last.write.mutations[1] =
       [key |-> "a", kind |-> [tag |-> "Sum", value |-> [kind |-> "U64", value |-> U64One]]]
  /\ last.pre.kv["a"] # None
  /\ last.pre.kv["a"][1].v = U64Max
  /\ last.pre.kv["a"][1].v_encoding = "LE64"
  /\ kv["a"][1].v = U64Zero

\* C13: when the last mutation of a committed write that targets a key is a sum,
\* min or max and the key has no row when it runs, the key ends with exactly the
\* operand as its value, stored as a u64 under the versionstamp of the commit.
C13_NumericMutationOfAbsentKeyStoresOperand ==
  (last.op = "atomic_write" /\ last.result = "Some") =>
    \A k \in Keys :
      LET targeting == Targeting(last.write.mutations, k)
      IN  ( /\ targeting # {}
            /\ IsNumeric(last.write.mutations, Largest(targeting))
            /\ AbsentBefore(last.pre.kv, last.write.mutations, k, Largest(targeting)) )
          => /\ kv[k] # None
             /\ kv[k][1].v = last.write.mutations[Largest(targeting)].kind.value.value
             /\ kv[k][1].v_encoding = "LE64"
             /\ StoredVersionstamp(kv, k) = last.versionstamp

\* C13 happens: a committed min of 1 on the absent key "a"
C13_Witness ==
  /\ last.op = "atomic_write"
  /\ last.result = "Some"
  /\ last.pre.kv["a"] = None
  /\ Len(last.write.mutations) = 1
  /\ last.write.mutations[1].key = "a"
  /\ last.write.mutations[1].kind.tag = "Min"
  /\ kv["a"] # None
  /\ kv["a"][1].v = U64One

\* C14: a write whose checks hold and one of whose sum, min or max mutations
\* finds under its key a value that is not a u64 ends in an error, not in a
\* check failure and not in a commit, and is rolled back: the table kv (the
\* mutations before it included) and the version counter are as before the write.
C14_NumericMutationOfOtherValueRollsBack ==
  ( /\ last.op = "atomic_write"
    /\ ~SomeCheckDoesNotHold(last.pre.kv, last.write.checks)
    /\ \E i \in 1..Len(last.write.mutations) :
         /\ IsNumeric(last.write.mutations, i)
         /\ NotU64Before(last.pre.kv, last.write.mutations, last.write.mutations[i].key, i) )
  => /\ last.result = "Err"
     /\ kv = last.pre.kv
     /\ data_version = last.pre.data_version

\* C14 happens: a write sets "b" and then sums into "a", which holds a
\* serialized value; it has ended in an error and "b" is as it was
C14_Witness ==
  /\ last.op = "atomic_write"
  /\ last.result = "Err"
  /\ Len(last.write.mutations) = 2
  /\ last.write.mutations[1].key = "b"
  /\ last.write.mutations[1].kind.tag = "Set"
  /\ last.write.mutations[2].key = "a"
  /\ last.write.mutations[2].kind.tag = "Sum"
  /\ last.pre.kv["a"] # None
  /\ last.pre.kv["a"][1].v_encoding = "V8"
  /\ last.pre.kv["b"] = None
  /\ kv = last.pre.kv

\* the iterator of the listing is open and was constructed without a cursor
ListedFromStart == listing.phase = "open" /\ listing.it.thrown = "" /\
                   (listing.cursor = None \/ listing.cursor[1].empty)

\* C15: once next() has returned done, whether because a batch came back short
\* or empty or because the limit is reached, every later next() returns done
\* and the number of scans issued stays what it was at the first done.
C15_IteratorIsFused ==
  (listing.phase = "open" /\ listing.after_done > 0) =>
    (listing.result = "done" /\ listing.scans = listing.done_scans)

\* C15 happens: an exhausted iterator that has yielded entries over two scans
\* has been called twice more
C15_Witness ==
  /\ listing.phase = "open"
  /\ listing.after_done = 2
  /\ listing.it.done
  /\ Len(listing.yielded) > 0
  /\ listing.scans >= 2

\* C16: an iterator with a limit, and an iterator resumed from its cursor with
\* the same limit, has yielded at most limit entries, whatever the batchSize.
C16_YieldsAtMostLimit ==
  (listing.phase = "open" /\ listing.it.limit # None) =>
    /\ Len(listing.yielded) <= listing.it.limit[1]
    /\ listing.resumed # None => Len(listing.resumed[1].yielded) <= listing.it.limit[1]

\* C16 happens: limit 2 with batchSize 3 over more than two matching rows:
\* the iterator is done after two entries
C16_Witness ==
  /\ listing.phase = "open"
  /\ listing.it.limit = Some(2)
  /\ listing.it.batchSize = 3
  /\ Cardinality(Selected(listing.table, listing.it.selector)) > 2
  /\ listing.result = "done"
  /\ Len(listing.yielded) = 2

\* both the iterator and the iterator resumed from its cursor are done
BothDone ==
  /\ listing.phase = "open"
  /\ listing.result = "done"
  /\ listing.resumed # None
  /\ listing.resumed[1].result = "done"

\* the entries the first iterator yielded after the n-th
YieldedAfter(n) == SubSeq(listing.yielded, n + 1, Len(listing.yielded))

\* C17 as claimed: the iterator constructed over the same selector from the
\* cursor read right after the n-th yield yields exactly the entries the first
\* iterator yields after the n-th, in the same order.
C17_ResumedYieldsTheRest ==
  BothDone => listing.resumed[1].yielded = YieldedAfter(listing.resumed[1].n)

\* C17 amended: the same, for a listing without a limit (a limit counts the
\* entries of each iterator from zero).
C17_ResumedYieldsTheRestWithoutLimit ==
  (BothDone /\ listing.it.limit = None) =>
    listing.resumed[1].yielded = YieldedAfter(listing.resumed[1].n)

\* C17 happens: batchSize 2 over the five keys under the prefix, the cursor
\* read after the second entry, the resumed iterator has yielded the last three
C17_Witness ==
  /\ BothDone
  /\ listing.it.limit = None
  /\ listing.it.batchSize = 2
  /\ ~listing.it.reverse
  /\ listing.resumed[1].n = 2
  /\ listing.yielded = <<<<1, 1>>, <<1, 2>>, <<1, 3>>, <<1, 4>>, <<1, 5>>>>
  /\ listing.resumed[1].yielded = <<<<1, 3>>, <<1, 4>>, <<1, 5>>>>

\* C18: an iterator without limit that starts from the beginning and is done
\* has yielded every key the selector matches exactly once, each after the
\* keys below it (above it when reverse is set).
C18_YieldsEveryEntryOnceInOrder ==
  (ListedFromStart /\ listing.it.limit = None /\ listing.result = "done") =>
    /\ {listing.yielded[i] : i \in 1..Len(listing.yielded)}
         = Selected(listing.table, listing.selector)
    /\ \A i \in 1..Len(listing.yielded) : \A j \in (i + 1)..Len(listing.yielded) :
         IF listing.it.reverse THEN KeyLess(listing.yielded[j], listing.yielded[i])
         ELSE KeyLess(listing.yielded[i], listing.yielded[j])

\* C18 happens: four matching keys, batchSize 2, reverse: all four yielded in
\* three scans, the last of them empty
C18_Witness ==
  /\ ListedFromStart
  /\ listing.it.limit = None
  /\ listing.it.reverse
  /\ listing.it.batchSize = 2
  /\ listing.result = "done"
  /\ Len(listing.yielded) = 4
  /\ listing.scans = 3

\* C19 as claimed: a read of the cursor throws when the iterator has yielded
\* no entry yet, and only then.
C19_CursorThrowsBeforeFirstYield ==
  (listing.phase = "open" /\ listing.read # Unread) =>
    (listing.read.thrown = "Error" <=> Len(listing.yielded) = 0)

\* C19 amended: a read of the cursor throws exactly when the iterator was
\* constructed without a cursor (or with an empty one) and no next() has yet
\* yielded an entry or found the listing exhausted; after a yield the cursor
\* is that of the last entry yielded.
C19_CursorThrowsBeforeFirstIteration ==
  (listing.phase = "open" /\ listing.read # Unread) =>
    /\ listing.read.thrown = "Error"
         <=> (ListedFromStart /\ Len(listing.yielded) = 0 /\ ~listing.it.done)
    /\ (listing.result = "entry") =>
         /\ listing.read.thrown = ""
         /\ ~listing.read.value.empty
         /\ listing.read.value.boundary_key = listing.yielded[Len(listing.yielded)]

\* C19 happens: the cursor of a new iterator constructed without a cursor has
\* been read and the read has thrown
C19_Witness ==
  /\ ListedFromStart
  /\ listing.result = "none"
  /\ listing.read # Unread
  /\ listing.read.thrown = "Error"

\* a selector with a prefix, a start and an end
PrefixWithStartAndEnd(selector) ==
  selector.prefix # None /\ selector.start # None /\ selector.end # None

\* C20: the construction of an iterator from a selector with a prefix, a start
\* and an end throws a TypeError: no iterator exists afterwards and no scan
\* has been issued.
C20_PrefixWithStartAndEndIsRejected ==
  (listing.phase \in {"open", "rejected"} /\ PrefixWithStartAndEnd(listing.selector)) =>
    /\ listing.phase = "rejected"
    /\ listing.thrown = "TypeError"
    /\ listing.scans = 0

\* C20 happens: a construction with prefix, start and end has been rejected
C20_Witness ==
  /\ listing.phase = "rejected"
  /\ PrefixWithStartAndEnd(listing.selector)
  /\ listing.thrown = "TypeError"

\* C27: the checks of an atomic write are judged on the table as it was before
\* the write: the write ends in a check failure exactly when some check differs
\* from the versionstamp its key had before the write, and a check that expects
\* the versionstamp the write would assign to a key it also mutates fails.
C27_ChecksJudgedOnStateBeforeWrite ==
  last.op = "atomic_write" =>
    /\ (last.result = "None") <=>
         (\E i \in 1..Len(last.write.checks) :
            StoredVersionstamp(last.pre.kv, last.write.checks[i].key)
              # last.write.checks[i].versionstamp)
    /\ \A i \in 1..Len(last.write.checks) :
         ( /\ last.write.checks[i].versionstamp
                = Some(version_to_versionstamp(last.pre.data_version + 1))
           /\ Targeting(last.write.mutations, last.write.checks[i].key) # {} )
         => /\ last.result = "None"
            /\ kv = last.pre.kv
            /\ data_version = last.pre.data_version

\* C27 happens: on the empty table a write checks "a" against the versionstamp
\* of the first commit and sets "a"; it is the write that would make the check
\* hold, and it ends in a check failure
C27_Witness ==
  /\ last.op = "atomic_write"
  /\ last.pre.data_version = 0
  /\ last.pre.kv["a"] = None
  /\ last.write.checks = <<[key |-> "a", versionstamp |-> Some(version_to_versionstamp(1))]>>
  /\ Len(last.write.mutations) = 1
  /\ last.write.mutations[1].key = "a"
  /\ last.write.mutations[1].kind.tag = "Set"
  /\ last.result = "None"
  /\ kv["a"] = None

\* the last mutation of the committed write that targets k is a sum, min or max
\* and finds no row under k
NumericOnAbsent(k) ==
  /\ last.op = "atomic_write"
  /\ last.result = "Some"
  /\ Targeting(last.write.mutations, k) # {}
  /\ IsNumeric(last.write.mutations, Largest(Targeting(last.write.mutations, k)))
  /\ AbsentBefore(last.pre.kv, last.write.mutations, k,
                  Largest(Targeting(last.write.mutations, k)))

\* the op_name of the mutation kind, as atomic_write passes it to mutate_le64
OpName(kind) == IF kind.tag = "Sum" THEN "sum" ELSE IF kind.tag = "Min" THEN "min" ELSE "max"

\* C28 as stated: a sum, min or max on an absent key writes op(0, operand)
\* under the versionstamp of the commit.
C28_AbsentKeyCountsAsZero ==
  \A k \in Keys :
    NumericOnAbsent(k) =>
      LET kind == last.write.mutations[Largest(Targeting(last.write.mutations, k))].kind
      IN  /\ kv[k] # None
          /\ kv[k][1].v = mutate(OpName(kind), U64Zero, kind.value.value)
          /\ StoredVersionstamp(kv, k) = last.versionstamp

\* C28 amended: a sum, min or max on an absent key writes the operand under the
\* versionstamp of the commit; for a sum and a max that is op(0, operand), for a
\* min it is op(0, operand) only when the operand is 0.
C28_AbsentKeyTakesOperandNotMinWithZero ==
  \A k \in Keys :
    NumericOnAbsent(k) =>
      LET kind == last.write.mutations[Largest(Targeting(last.write.mutations, k))].kind
      IN  /\ kv[k] # None
          /\ kv[k][1].v = kind.value.value
          /\ kind.tag \in {"Sum", "Max"} =>
                kv[k][1].v = mutate(OpName(kind), U64Zero, kind.value.value)
          /\ kind.tag = "Min" =>
                ((kv[k][1].v = mutate("min", U64Zero, kind.value.value))
                   <=> (kind.value.value = U64Zero))
          /\ StoredVersionstamp(kv, k) = last.versionstamp

\* C28 happens: a committed min on the absent key "a" stores a value that is
\* not min(0, operand) = 0
C28_Witness ==
  /\ NumericOnAbsent("a")
  /\ last.write.mutations[Largest(Targeting(last.write.mutations, "a"))].kind.tag = "Min"
  /\ kv["a"] # None
  /\ kv["a"][1].v # U64Zero

\* C29: once a scan has returned fewer than batchSize entries the iterator
\* issues no further scan; what it yields from then on is the entries of that
\* batch, in order and each once, and when it reports done it has yielded all
\* of them, or as many as its limit allows.
C29_NoScanAfterShortBatch ==
  (listing.phase = "open" /\ listing.short # None) =>
    LET short == listing.short[1]
        rest == YieldedAfter(short.n)
    IN  /\ listing.scans = short.scans
        /\ Len(rest) <= Len(short.batch)
        /\ rest = SubSeq(short.batch, 1, Len(rest))
        /\ \A i, j \in 1..Len(rest) : rest[i] = rest[j] => i = j
        /\ listing.result = "done" =>
              \/ rest = short.batch
              \/ listing.it.limit # None /\ Len(listing.yielded) = listing.it.limit[1]

\* C29 happens: a short batch of two entries came after a full batch, both
\* entries were yielded and the iterator reported done, not stopped by a limit
C29_Witness ==
  /\ listing.phase = "open"
  /\ listing.short # None
  /\ listing.short[1].n > 0
  /\ Len(listing.short[1].batch) = 2
  /\ listing.it.limit = None
  /\ listing.result = "done"
  /\ listing.after_done > 0
  /\ Len(listing.yielded) = listing.short[1].n + 2

\* C30: after a yield the cursor of the iterator is that of its selector and of
\* the key it yielded last, whatever is still in its buffer; the cursor handed
\* to a scan issued after n > 0 yields is that of the n-th yielded key, and the
\* one handed to a scan issued before any yield is the cursor the iterator was
\* constructed with (none when that was missing or empty).
C30_CursorIsOfLastYieldedKey ==
  listing.phase = "open" =>
    /\ listing.result = "entry" =>
          listing.it.cursorGen
            = Some(encodeCursor(listing.selector, listing.yielded[Len(listing.yielded)]))
    /\ listing.pull # None =>
          listing.pull[1].cursor =
            IF listing.pull[1].n = 0
              THEN IF listing.cursor # None /\ ~listing.cursor[1].empty THEN listing.cursor
                   ELSE None
            ELSE Some(encodeCursor(listing.selector, listing.yielded[listing.pull[1].n]))

\* C30 happens: after a yield an entry of the batch is still buffered, and
\* that batch was fetched with the cursor of an earlier yield
C30_Witness ==
  /\ listing.phase = "open"
  /\ listing.result = "entry"
  /\ listing.it.entries # None
  /\ Len(listing.it.entries[1]) >= 1
  /\ listing.pull # None
  /\ listing.pull[1].n > 0
  /\ listing.it.cursorGen[1].boundary_key # listing.it.entries[1][1]

\* C21: an iterator has at most one scan outstanding, whatever the overlap of
\* the next() calls made on it, and it delivers no entry twice.
C21_OneScanOutstandingNoEntryTwice ==
  listing.phase = "calls" =>
    /\ Cardinality(Outstanding) <= 1
    /\ \A i, j \in 1..Len(listing.yielded) :
         listing.yielded[i] = listing.yielded[j] => i = j

\* C22: a read that runs while an atomic write is under way sees the tables as
\* they were when the write began, with neither a mutation nor the counter's
\* increment; a read after the write has returned sees either all of the
\* write (the tables atomic_write gives in one step, when it committed) or
\* none of it (after a check failure or an error).
C22_NoPartialWriteObserved ==
  last.op = "observe" =>
    /\ last.during # None => last.seen = last.during[1].pre
    /\ (last.during = None /\ last.finished # None) =>
         LET f == last.finished[1]
             whole == atomic_write(f.pre, f.write, FALSE)
         IN  IF f.result = "Some"
               THEN whole.result = "Some" /\ last.seen = whole.db
             ELSE last.seen = f.pre

\* C22 happens: the observer reads while a write of two mutations has applied
\* its first mutation and not yet its second, and sees the empty table
C22_Witness ==
  /\ last.op = "observe"
  /\ last.during # None
  /\ last.during[1].pc = "mutations"
  /\ last.during[1].i = 2
  /\ Len(last.during[1].write.mutations) = 2
  /\ last.during[1].tx.kv["a"] # None
  /\ last.during[1].tx.data_version = 1
  /\ last.seen.kv["a"] = None
  /\ last.seen.data_version = 0

\* C23: a write with more than MAX_CHECKS checks or more than MAX_MUTATIONS
\* mutations is rejected with an error, by the database and by commit(), and
\* leaves both tables as they were.
C23_WriteOverLimitsIsRejected ==
  ( /\ last.op = "long_write"
    /\ \/ Len(last.write.checks) > MAX_CHECKS
       \/ Len(last.write.mutations) > MAX_MUTATIONS )
  => /\ last.result = "Err"
     /\ last.commit.settled = "rejected"
     /\ kv = last.pre.kv
     /\ data_version = last.pre.data_version

\* C24: the encodings of two keys compare bytewise as the keys compare in the
\* KeyPart order, and the empty key is below every other key and encoding.
C24_EncodingKeepsTheOrder ==
  last.op = "encode_key" =>
    /\ BytesCmp(last.e1, last.e2) = Key_cmp(last.k1, last.k2)
    /\ (last.k1 = <<>> /\ last.k2 # <<>>) => BytesCmp(last.e1, last.e2) = "Less"

\* C25: two different keys never have the same encoding, and every part of a
\* key leaves bytes in the encoding of the key.
C25_EncodingIsOneToOne ==
  last.op = "encode_key" =>
    /\ last.k1 # last.k2 => last.e1 # last.e2
    /\ Len(last.e1) >= Len(last.k1)

\* C26: two parts of different types compare as their types do, in the order
\* Bytes, String, Int, Float, False, True; the first bytes of their encodings
\* are in the same order; a number is above every bigint.
C26_TypesOrderPartsAndTagBytes ==
  /\ (last.op = "encode_key" /\ Len(last.k1) = 1 /\ Len(last.k2) = 1
        /\ last.k1[1].kind # last.k2[1].kind) =>
       /\ KeyPart_cmp(last.k1[1], last.k2[1])
            = IntCmp(tag_ordering(last.k1[1]), tag_ordering(last.k2[1]))
       /\ last.e1 # <<>>
       /\ last.e2 # <<>>
       /\ IntCmp(last.e1[1], last.e2[1])
            = IntCmp(tag_ordering(last.k1[1]), tag_ordering(last.k2[1]))
  /\ (last.op = "from" /\ last.v1.type = "Number" /\ last.v2.type = "BigInt") =>
       last.cmp = "Greater"

\* C37: Kv.delete(key) leaves the store as the atomic write of one delete of
\* that key leaves it: the row gone and the version counter advanced by one.
C37_KvDeleteIsAnAtomicWrite ==
  last.op = "delete" =>
    LET write == [checks |-> <<>>,
                  mutations |-> <<[key |-> last.key, kind |-> [tag |-> "Delete"]]>>]
        whole == atomic_write(last.pre, write, FALSE)
    IN  /\ kv = whole.db.kv
        /\ data_version = whole.db.data_version
        /\ data_version = last.pre.data_version + 1

\* C39: KeyPart.from gives different parts for different values; a number
\* becomes a Float part and a bigint an Int part, so 1 and 1n differ.
C39_FromIsOneToOneAcrossTypes ==
  last.op = "from" =>
    /\ last.v1 # last.v2 => last.p1 # last.p2
    /\ last.v1.type = "Number" => last.p1.kind = "Float"
    /\ last.v1.type = "BigInt" => last.p1.kind = "Int"

\* the mutation tuples a builder call is to append for its arguments
RECURSIVE Tuples(_)
Tuples(args) ==
  IF args = <<>> THEN <<>>
  ELSE <<<<Head(args).key, Head(args).type,
           IF Head(args).value = None THEN Null
           ELSE serializeValue_unknown(Head(args).value[1])>>>> \o Tuples(Tail(args))

\* C31: a builder call on the operation of Kv.atomic() throws nothing, leaves
\* both tables alone and appends what it was given to the end of the
\* operation's checks or mutations, in the order given.
C31_BuilderCallsAppendAndTouchNothing ==
  last.op = "builder" =>
    /\ kv = last.pre.kv
    /\ data_version = last.pre.data_version
    /\ (last.method # "mutate" \/ \A i \in 1..Len(last.args) : InvalidMutation(last.args[i]) = "") =>
         /\ last.thrown = ""
         /\ last.after.checks.defined
         /\ last.after.mutations.defined
         /\ IF last.method = "check"
              THEN last.after.checks.items = last.before.checks.items \o last.args
            ELSE last.after.mutations.items = last.before.mutations.items \o Tuples(last.args)

\* some argument of the mutate() call is an invalid mutation
MutateWithInvalid ==
  /\ last.op = "builder"
  /\ last.method = "mutate"
  /\ \E i \in 1..Len(last.args) : InvalidMutation(last.args[i]) # ""

\* C32: a mutate() call with an invalid mutation among its arguments throws a
\* TypeError and leaves the operation as it was, whatever precedes the
\* invalid mutation in the call.
C32_InvalidMutateAddsNothing ==
  MutateWithInvalid =>
    /\ last.thrown = "TypeError"
    /\ last.after = last.before

\* C32 happens: a valid set, then a delete with a value, in one mutate() call
C32_Witness ==
  /\ MutateWithInvalid
  /\ Len(last.args) = 2
  /\ InvalidMutation(last.args[1]) = ""
  /\ last.args[1].type = "set"
  /\ last.args[2].type = "delete"
  /\ last.args[2].value # None
  /\ last.thrown = "TypeError"

\* the operation was committed twice
CommittedTwice == outcome[1] # None /\ outcome[2] # None /\ inflight[2] = inflight[1]

\* the operation checks a key that it also writes
ChecksKeyItWrites ==
  \E i \in 1..Len(inflight[1][1].checks) :
    Targeting(inflight[1][1].mutations, inflight[1][1].checks[i].key) # {}

C34_GetManyReadsOneSnapshot ==
  (listing.phase = "getMany" /\ listing.result.settled = "fulfilled") =>
    \A w \in 1..Len(listing.writes) :
      \A i, j \in 1..Len(listing.keys) :
        LET write == listing.writes[w]
            StoredBy(n) == \E m \in 1..Len(write.keys) : write.keys[m] = listing.keys[n]
            Old(n) == listing.result.value[n].versionstamp[1] < write.version
        IN  (StoredBy(i) /\ StoredBy(j)) => (Old(i) <=> Old(j))

\* C35: with sets and deletes of keys of the range committing between the
\* batches of a running listing, the keys yielded are strictly increasing
\* (strictly decreasing when reverse is set), so no key is yielded twice.
C35_OrderedUnderWrites ==
  listing.phase = "live" =>
    \A i, j \in 1..Len(listing.yielded) :
      i < j => IF listing.it.reverse THEN KeyLess(listing.yielded[j], listing.yielded[i])
               ELSE KeyLess(listing.yielded[i], listing.yielded[j])

\* C35 happens: after the first batch a write stored a new key before the
\* cursor; the listing went on over a second scan to its end and yielded keys
\* of both batches, without the new key
C35_Witness ==
  /\ listing.phase = "live"
  /\ listing.it.done
  /\ listing.scans >= 2
  /\ Len(listing.yielded) >= 2
  /\ \E w \in 1..Len(listing.writes) :
       /\ listing.writes[w].tag = "Set"
       /\ ~listing.writes[w].stored
       /\ listing.writes[w].scans = 1
       /\ listing.writes[w].key \in listing.table
       /\ \A i \in 1..Len(listing.yielded) : listing.yielded[i] # listing.writes[w].key

\* the names a call was given
Given(call) == {name \in GlobalNames : call.variables[name] # None}

\* C33: withGlobal sets the given globals for the callback; when the callback
\* returns a non-promise or throws, each has its previous value again as
\* withGlobal returns; when it returns a promise, they are still set as
\* withGlobal returns and each gets the value it had at the call when the
\* promise is fulfilled or rejected.  Neither the setting nor the cleanup
\* (from the window dirty, as cleanup finds it, to cleaned) touches a name
\* that was not given.
C33_SetThenRestored ==
  \A i \in 1..Len(listing.calls) :
    LET call == listing.calls[i]
    IN  /\ \A name \in Given(call) :
             /\ WindowGet(call.during, name) = call.variables[name][1]
             /\ call.returns # "promise" =>
                  WindowGet(call.returned, name) = WindowGet(call.before, name)
             /\ call.returns = "promise" =>
                  /\ WindowGet(call.returned, name) = call.variables[name][1]
                  /\ call.settled # "" =>
                       WindowGet(call.cleaned, name) = WindowGet(call.before, name)
        /\ \A name \in GlobalNames \ Given(call) :
             call.during[name] = call.before[name] /\ call.cleaned[name] = call.dirty[name]

\* C33 happens: one call whose callback threw and one whose promise was
\* rejected, both given Deno while it held a value
C33_Witness ==
  /\ \E i \in 1..Len(listing.calls) :
       /\ listing.calls[i].thrown
       /\ "Deno" \in Given(listing.calls[i])
       /\ listing.calls[i].before["Deno"].on
  /\ \E i \in 1..Len(listing.calls) :
       /\ listing.calls[i].settled = "rejected"
       /\ "Deno" \in Given(listing.calls[i])
       /\ listing.calls[i].before["Deno"].on
       /\ listing.calls[i].variables["Deno"][1] # WindowGet(listing.calls[i].before, "Deno")

\* C38 as claimed: when asynchronous withGlobal calls that set one global
\* overlap, then once all their promises have settled the global holds the
\* value it had before the first call, in whatever order they settle.
C38_OverlappingCallsRestoreTheFirstValue ==
  \A name \in GlobalNames :
    ( /\ Len(listing.calls) >= 2
      /\ \A i \in 1..Len(listing.calls) :
           /\ listing.calls[i].returns = "promise"
           /\ listing.calls[i].settled # ""
           /\ name \in Given(listing.calls[i])
           /\ i > 1 => listing.calls[i].overlaps # {} )
    => WindowGet(listing.window, name) = WindowGet(listing.calls[1].before, name)

====
